---- MODULE Spec2Model ----
(***************************************************************************)
(* Scheduling engine of the booking backend: AvailabilityService           *)
(* (backend/src/services/availabilityService.ts) and BookingService        *)
(* (backend/src/services/bookingService.ts, the full version that starts   *)
(* at line 346), over the tables of backend/src/config/schema.sql.         *)
(*                                                                         *)
(* Representation.                                                         *)
(*  - A string (a time of day, an email, a phone number) is a sequence of  *)
(*    one-character strings, so that split, Number, the time regex and     *)
(*    toLowerCase are computed as the code computes them.  The empty       *)
(*    sequence is the empty string; it also stands for SQL NULL and for    *)
(*    undefined in a column or argument that holds a string (all three are *)
(*    falsy in the JavaScript tests the code applies to them).             *)
(*  - A nullable number (cancellation_hours, cancelled_at, an optional     *)
(*    party_size) is <<>> for NULL/undefined and <<n>> for the number n.   *)
(*  - A calendar date is a day index; the clock `now` counts minutes from  *)
(*    00:00 of day 0, in the single local time zone the code assumes.      *)
(*    getWeekAvailability, which steps dates on the local wall clock and   *)
(*    reads them back in UTC, is modelled with the zone of the process.    *)
(*  - An update patch is a record that holds exactly the fields the        *)
(*    caller defined.                                                      *)
(***************************************************************************)
EXTENDS Integers, Sequences, FiniteSets, TLC

VARIABLES
    bookings,     \* the bookings table: row i is the booking with id i
    business,     \* the business table, by id (read-only for the engine)
    now,          \* the clock, in minutes since 00:00 of day 0
    lastResult,   \* what the last service call returned
    requests      \* createBooking calls in flight (interleaved executions)

vars == <<bookings, business, now, lastResult, requests>>

(***************************************************************************)
(* Bounds of the model                                                     *)
(***************************************************************************)
MaxBookings == 2
MaxLifecycleBookings == 2
MaxCapacityBookings == 3
MaxSlotBookings == 2
MaxCalendarBookings == 1
NumRequests == 2

(***************************************************************************)
(* JavaScript values                                                       *)
(***************************************************************************)
\* Number(...) of a string that is no numeral; every comparison with it is false
NaN == -1

\* staff_member_id || null: 0, null and undefined all mean "no staff member"
NoStaff == 0

\* the bookings of the runs with update patches, and the last day their clock
\* reaches
MaxUpdateBookings == 1

LastClockDay == 2

\* the longest duration and the longest buffer of the generateTimeSlots calls,
\* in quarters of an hour
MaxDurationQuarters == 4

MaxBufferQuarters == 2

MinutesPerHour == 60

DefaultCancellationHours == 24

DigitChars == <<"0", "1", "2", "3", "4", "5", "6", "7", "8", "9">>

Digits == {DigitChars[i] : i \in 1..10}

DigitVal(c) == (CHOOSE i \in 1..10 : DigitChars[i] = c) - 1

UpperChars == <<"A", "B", "C", "D", "E", "F", "G", "H", "I", "J", "K", "L", "M",
                "N", "O", "P", "Q", "R", "S", "T", "U", "V", "W", "X", "Y", "Z">>

LowerChars == <<"a", "b", "c", "d", "e", "f", "g", "h", "i", "j", "k", "l", "m",
                "n", "o", "p", "q", "r", "s", "t", "u", "v", "w", "x", "y", "z">>

\* String.prototype.toLowerCase, character by character
toLowerCase(s) ==
    [i \in 1..Len(s) |->
        IF \E k \in 1..26 : UpperChars[k] = s[i]
        THEN LowerChars[CHOOSE k \in 1..26 : UpperChars[k] = s[i]]
        ELSE s[i]]

\* String.prototype.split(':')
RECURSIVE split(_)
split(s) ==
    IF s = <<>> THEN << <<>> >>
    ELSE LET rest == split(Tail(s)) IN
         IF Head(s) = ":" THEN << <<>> >> \o rest
         ELSE << <<Head(s)>> \o Head(rest) >> \o Tail(rest)

RECURSIVE DigitsValue(_)
DigitsValue(p) ==
    IF p = <<>> THEN 0
    ELSE DigitsValue(SubSeq(p, 1, Len(p) - 1)) * 10 + DigitVal(p[Len(p)])

\* Number(p) for a string of the model's alphabet: '' is 0, a digit string its
\* value, anything else NaN
Number(p) ==
    IF \A i \in 1..Len(p) : p[i] \in Digits THEN DigitsValue(p) ELSE NaN

\* a < b, a <= b on JavaScript numbers: false when either side is NaN
Lt(a, b) == a # NaN /\ b # NaN /\ a < b

Le(a, b) == a # NaN /\ b # NaN /\ a <= b

(***************************************************************************)
(* TimeMath                                                                *)
(***************************************************************************)
T0900 == <<"0", "9", ":", "0", "0">>

T1000 == <<"1", "0", ":", "0", "0">>

T1100 == <<"1", "1", ":", "0", "0">>

T1030 == <<"1", "0", ":", "3", "0">>

T1130 == <<"1", "1", ":", "3", "0">>

T1200 == <<"1", "2", ":", "0", "0">>

\* 9:00 without the leading zero: the time regex accepts it
T900 == <<"9", ":", "0", "0">>

\* 25:00: the time regex rejects it, timeStringToMinutes makes it 1500
T2500 == <<"2", "5", ":", "0", "0">>

\* hours * 60 + minutes, NaN when either is
hoursTimes60PlusMinutes(hours, minutes) ==
    IF hours = NaN \/ minutes = NaN THEN NaN
    ELSE hours * MinutesPerHour + minutes

\* const [hours, minutes] = parts.map(Number); a missing part is undefined
partsToMinutes(parts) ==
    hoursTimes60PlusMinutes(Number(parts[1]),
                            IF Len(parts) >= 2 THEN Number(parts[2]) ELSE NaN)

\* the time strings of the tables and the requests, and their conversions
TimeStrings == {T0900, T1000, T1030, T1100, T1130, T1200, T900, T2500}

ConvertedTimes == [timeStr \in TimeStrings |-> partsToMinutes(split(timeStr))]

\* timeStringToMinutes: the conversion, looked up for the strings converted above
timeStringToMinutes(timeStr) ==
    IF timeStr \in TimeStrings THEN ConvertedTimes[timeStr]
    ELSE partsToMinutes(split(timeStr))

\* /^([01]?[0-9]|2[0-3]):[0-5][0-9]$/.test(t)
MatchesTimeFormat(t) ==
    LET n == Len(t) IN
    /\ n \in {4, 5}
    /\ t[n - 2] = ":"
    /\ t[n - 1] \in {"0", "1", "2", "3", "4", "5"}
    /\ t[n] \in Digits
    /\ IF n = 4 THEN t[1] \in Digits
       ELSE \/ t[1] \in {"0", "1"} /\ t[2] \in Digits
            \/ t[1] = "2" /\ t[2] \in {"0", "1", "2", "3"}

\* a variant of timeSlotsOverlap where intervals that touch overlap
touchingOverlaps(slot1Start, slot1End, slot2Start, slot2End) ==
    /\ Le(timeStringToMinutes(slot1Start), timeStringToMinutes(slot2End))
    /\ Le(timeStringToMinutes(slot2Start), timeStringToMinutes(slot1End))

\* a variant of timeSlotsOverlap: does the first interval start inside the second?
startsInside(slot1Start, slot1End, slot2Start, slot2End) ==
    /\ Le(timeStringToMinutes(slot2Start), timeStringToMinutes(slot1Start))
    /\ Lt(timeStringToMinutes(slot1Start), timeStringToMinutes(slot2End))

timeSlotsOverlap(slot1Start, slot1End, slot2Start, slot2End) ==
    /\ Lt(timeStringToMinutes(slot1Start), timeStringToMinutes(slot2End))
    /\ Lt(timeStringToMinutes(slot2Start), timeStringToMinutes(slot1End))

\* new Date(date).getDay(): 0 = Sunday; day 0 of the model is a Monday
getDay(date) == (date + 1) % 7

\* today.setHours(0, 0, 0, 0): the day the clock is in
Today == now \div (24 * MinutesPerHour)

(***************************************************************************)
(* Strings the requests and the stored rows use                            *)
(***************************************************************************)
EmailAnn == <<"A", "n", "n", "@", "x">>

EmailAnnLower == <<"a", "n", "n", "@", "x">>

EmailAnnUpper == <<"A", "N", "N", "@", "X">>

EmailBob == <<"b", "o", "b", "@", "x">>

Phone == <<"5", "5", "5">>

(***************************************************************************)
(* Identity store: the tables the engine only reads (schema.sql).  One     *)
(* business (1) is active and asks for a phone number, business 2 is       *)
(* inactive.  Service 1 needs a staff member (staff 1 and 2 can perform    *)
(* it), service 2 is capacity-based with capacity 2, service 3 is          *)
(* inactive.  Day 0 is a Monday; the business is open Monday to Wednesday  *)
(* 09:00-12:00, its Thursday rule is inactive.  On day 1 the business is   *)
(* closed 11:00-12:00, on day 2 for the whole day.  Service 4 is           *)
(* capacity-based with capacity 1; service 5 needs a staff member and only *)
(* the inactive staff member 3 can perform it.  On Saturdays the business  *)
(* and staff 1 work split shifts, 09:00-10:00 and 11:00-12:00.  On day 7   *)
(* the business is closed 10:00-10:30; staff 1 is away on day 8 for the    *)
(* whole day and on day 9 10:00-11:00.  On Sundays the rules overlap: the  *)
(* business is open 09:00-11:00 and 10:00-12:00, staff 2 works 09:00-11:00 *)
(* and 09:00-10:00, staff 1 works 10:00-12:00.                             *)
(***************************************************************************)
services ==
    { [id |-> 1, business_id |-> 1, duration_minutes |-> 60, capacity |-> 1,
       requires_staff |-> TRUE, buffer_after_minutes |-> 0, is_active |-> TRUE],
      [id |-> 2, business_id |-> 1, duration_minutes |-> 60, capacity |-> 2,
       requires_staff |-> FALSE, buffer_after_minutes |-> 0, is_active |-> TRUE],
      [id |-> 3, business_id |-> 1, duration_minutes |-> 60, capacity |-> 2,
       requires_staff |-> FALSE, buffer_after_minutes |-> 0, is_active |-> FALSE],
      [id |-> 4, business_id |-> 1, duration_minutes |-> 60, capacity |-> 1,
       requires_staff |-> FALSE, buffer_after_minutes |-> 0, is_active |-> TRUE],
      [id |-> 5, business_id |-> 1, duration_minutes |-> 60, capacity |-> 1,
       requires_staff |-> TRUE, buffer_after_minutes |-> 0, is_active |-> TRUE] }

staff_members ==
    { [id |-> 1, business_id |-> 1, is_active |-> TRUE],
      [id |-> 2, business_id |-> 1, is_active |-> TRUE],
      [id |-> 3, business_id |-> 1, is_active |-> FALSE] }

staff_services ==
    { [staff_member_id |-> 1, service_id |-> 1],
      [staff_member_id |-> 2, service_id |-> 1],
      [staff_member_id |-> 3, service_id |-> 1],
      [staff_member_id |-> 3, service_id |-> 5] }

\* business_id / staff_member_id: NoStaff (0) where the column is NULL
availability_rules ==
    { [business_id |-> 1, staff_member_id |-> 0, day_of_week |-> d,
       start_time |-> T0900, end_time |-> T1200, is_active |-> TRUE] : d \in {1, 2, 3} }
    \cup
    { [business_id |-> 1, staff_member_id |-> 0, day_of_week |-> 4,
       start_time |-> T0900, end_time |-> T1200, is_active |-> FALSE] }
    \cup
    { [business_id |-> 0, staff_member_id |-> 1, day_of_week |-> d,
       start_time |-> T0900, end_time |-> T1100, is_active |-> TRUE] : d \in {1, 2, 3} }
    \cup
    { [business_id |-> 0, staff_member_id |-> 2, day_of_week |-> d,
       start_time |-> T1000, end_time |-> T1200, is_active |-> TRUE] : d \in {1, 2, 3} }
    \cup
    { [business_id |-> 0, staff_member_id |-> 3, day_of_week |-> d,
       start_time |-> T0900, end_time |-> T1200, is_active |-> TRUE] : d \in {1, 2, 3} }
    \cup
    { [business_id |-> b, staff_member_id |-> 1 - b, day_of_week |-> 6,
       start_time |-> shift[1], end_time |-> shift[2], is_active |-> TRUE] :
           b \in {0, 1}, shift \in {<<T0900, T1000>>, <<T1100, T1200>>} }
    \cup
    { [business_id |-> b, staff_member_id |-> 1 - b, day_of_week |-> 6,
       start_time |-> T1000, end_time |-> T1100, is_active |-> FALSE] : b \in {0, 1} }
    \cup
    { [business_id |-> 1, staff_member_id |-> 0, day_of_week |-> 0,
       start_time |-> shift[1], end_time |-> shift[2], is_active |-> TRUE] :
           shift \in {<<T0900, T1100>>, <<T1000, T1200>>} }
    \cup
    { [business_id |-> 0, staff_member_id |-> 2, day_of_week |-> 0,
       start_time |-> shift[1], end_time |-> shift[2], is_active |-> TRUE] :
           shift \in {<<T0900, T1100>>, <<T0900, T1000>>} }
    \cup
    { [business_id |-> 0, staff_member_id |-> 1, day_of_week |-> 0,
       start_time |-> T1000, end_time |-> T1200, is_active |-> TRUE] }

\* in the order the table returns its rows
special_availability ==
    << [business_id |-> 1, staff_member_id |-> 0, date |-> 1,
        start_time |-> <<>>, end_time |-> <<>>, is_available |-> TRUE],
       [business_id |-> 1, staff_member_id |-> 0, date |-> 1,
        start_time |-> T1100, end_time |-> T1200, is_available |-> FALSE],
       [business_id |-> 1, staff_member_id |-> 0, date |-> 2,
        start_time |-> <<>>, end_time |-> <<>>, is_available |-> FALSE],
       [business_id |-> 1, staff_member_id |-> 0, date |-> 7,
        start_time |-> T1000, end_time |-> T1030, is_available |-> FALSE],
       [business_id |-> 0, staff_member_id |-> 1, date |-> 8,
        start_time |-> <<>>, end_time |-> <<>>, is_available |-> FALSE],
       [business_id |-> 0, staff_member_id |-> 1, date |-> 9,
        start_time |-> T1000, end_time |-> T1100, is_available |-> FALSE] >>

BookingStatuses == {"pending", "confirmed", "cancelled", "completed", "no_show"}

ALLOWED_UPDATE_FIELDS ==
    {"customer_name", "customer_email", "customer_phone", "booking_date",
     "start_time", "end_time", "party_size", "special_requests", "status",
     "payment_status", "cancellation_reason", "total_amount", "deposit_paid"}

\* the business rows; cancellation_hours is <<>> when the column is NULL
BusinessTable(cancellation_hours) ==
    [id \in {1, 2} |->
        [is_active |-> (id = 1), require_phone |-> (id = 1),
         cancellation_hours |-> cancellation_hours]]

(***************************************************************************)
(* AvailabilityService: the queries                                        *)
(***************************************************************************)
\* a variant of getServiceDetails that looks the service up by its id alone
serviceOfAnyBusiness(serviceId, businessId) ==
    {s \in services : s.id = serviceId}

\* SELECT ... FROM services WHERE id = ? AND business_id = ? AND is_active = true
getServiceDetails(serviceId, businessId) ==
    {s \in services : s.id = serviceId /\ s.business_id = businessId /\ s.is_active}

\* a variant of canStaffPerformService that reads staff_services alone
staffHasService(staffMemberId, serviceId) ==
    \E ss \in staff_services :
        ss.staff_member_id = staffMemberId /\ ss.service_id = serviceId

\* staff_services JOIN staff_members ... AND sm.is_active = true
canStaffPerformService(staffMemberId, serviceId) ==
    \E ss \in staff_services :
        /\ ss.staff_member_id = staffMemberId
        /\ ss.service_id = serviceId
        /\ \E sm \in staff_members : sm.id = staffMemberId /\ sm.is_active

\* the availability rules isTimeSlotAvailable reads: the staff member's for a
\* staff-required service with a staff id, the business's otherwise
ApplicableRules(service, businessId, staffMemberId, dayOfWeek) ==
    IF service.requires_staff /\ staffMemberId # NoStaff
    THEN {r \in availability_rules :
            r.staff_member_id = staffMemberId /\ r.day_of_week = dayOfWeek /\ r.is_active}
    ELSE {r \in availability_rules :
            r.business_id = businessId /\ r.day_of_week = dayOfWeek /\ r.is_active}

\* a variant of isWithinHours that compares the end of the request only
endsWithinHours(rules, startTime, endTime) ==
    \E rule \in rules :
        Le(timeStringToMinutes(endTime), timeStringToMinutes(rule.end_time))

\* rules.some(rule => start >= rule.start_time && end <= rule.end_time), in minutes
isWithinHours(rules, startTime, endTime) ==
    \E rule \in rules :
        /\ Le(timeStringToMinutes(rule.start_time), timeStringToMinutes(startTime))
        /\ Le(timeStringToMinutes(endTime), timeStringToMinutes(rule.end_time))

\* WHERE (business_id = ? [OR staff_member_id = ?]) AND date = ?, in table order
SpecialRows(businessId, staffMemberId, date) ==
    SelectSeq(special_availability,
        LAMBDA sp : /\ sp.date = date
                    /\ \/ sp.business_id = businessId
                       \/ staffMemberId # NoStaff /\ sp.staff_member_id = staffMemberId)

\* a variant of closureBlocks that ignores closures with a start and an end
blocksWholeDayOnly(special, startTime, endTime) ==
    /\ ~special.is_available
    /\ ~(special.start_time # <<>> /\ special.end_time # <<>>)

\* one row of the closure loop: does it end the check with "not available"?
closureBlocks(special, startTime, endTime) ==
    /\ ~special.is_available
    /\ IF special.start_time # <<>> /\ special.end_time # <<>>
       THEN timeSlotsOverlap(startTime, endTime, special.start_time, special.end_time)
       ELSE TRUE

\* the reason the closure loop returns with
closureReason(special) ==
    IF special.start_time # <<>> /\ special.end_time # <<>>
    THEN "Special closure during requested time"
    ELSE "Business/staff not available on this date"

\* a variant of ExistingBookings without the AND id != ? of excludeBookingId
ExistingBookingsWithOwn(service, businessId, serviceId, staffMemberId, date, excludeBookingId) ==
    {id \in DOMAIN bookings :
        /\ bookings[id].business_id = businessId
        /\ bookings[id].service_id = serviceId
        /\ bookings[id].booking_date = date
        /\ bookings[id].status \in {"confirmed", "pending"}
        /\ (service.requires_staff /\ staffMemberId # NoStaff)
              => bookings[id].staff_member_id = staffMemberId}

\* the ids the conflict query returns
ExistingBookings(service, businessId, serviceId, staffMemberId, date, excludeBookingId) ==
    {id \in DOMAIN bookings :
        /\ bookings[id].business_id = businessId
        /\ bookings[id].service_id = serviceId
        /\ bookings[id].booking_date = date
        /\ bookings[id].status \in {"confirmed", "pending"}
        /\ (service.requires_staff /\ staffMemberId # NoStaff)
              => bookings[id].staff_member_id = staffMemberId
        /\ excludeBookingId # 0 => id # excludeBookingId}

\* a variant of bookingConflicts that finds no conflict for a staff-required service
capacityConflictsOnly(service, booking, startTime, endTime, partySize) ==
    /\ timeSlotsOverlap(startTime, endTime, booking.start_time, booking.end_time)
    /\ ~service.requires_staff
    /\ ~(partySize + booking.party_size <= service.capacity)

\* one row of the conflict loop: does it end the check with "already booked"?
bookingConflicts(service, booking, startTime, endTime, partySize) ==
    /\ timeSlotsOverlap(startTime, endTime, booking.start_time, booking.end_time)
    /\ ~(~service.requires_staff /\ partySize + booking.party_size <= service.capacity)

isTimeSlotAvailable(businessId, serviceId, staffMemberId, date, startTime, endTime, partySize, excludeBookingId) ==
    LET found == getServiceDetails(serviceId, businessId) IN
    IF found = {} THEN [available |-> FALSE, reason |-> "Service not found or inactive"]
    ELSE
    LET service == CHOOSE s \in found : TRUE
        dayOfWeek == getDay(date)
        rules == ApplicableRules(service, businessId, staffMemberId, dayOfWeek)
        specials == SpecialRows(businessId, staffMemberId, date)
        blocking == {i \in 1..Len(specials) : closureBlocks(specials[i], startTime, endTime)}
        existing == ExistingBookings(service, businessId, serviceId, staffMemberId,
                                     date, excludeBookingId)
    IN  IF partySize > service.capacity
        THEN [available |-> FALSE,
              reason |-> IF service.capacity = 1
                         THEN "Party size exceeds capacity (max: 1)"
                         ELSE "Party size exceeds capacity (max: 2)"]
        ELSE IF rules = {}
        THEN [available |-> FALSE,
              reason |-> IF service.requires_staff /\ staffMemberId # NoStaff
                         THEN "Staff not available on this day"
                         ELSE "Business closed on this day"]
        ELSE IF ~isWithinHours(rules, startTime, endTime)
        THEN [available |-> FALSE,
              reason |-> IF service.requires_staff /\ staffMemberId # NoStaff
                         THEN "Requested time is outside staff working hours"
                         ELSE "Requested time is outside business hours"]
        ELSE IF blocking # {}
        THEN [available |-> FALSE,
              reason |-> closureReason(specials[CHOOSE i \in blocking :
                                                  \A j \in blocking : i <= j])]
        ELSE IF \E id \in existing :
                    bookingConflicts(service, bookings[id], startTime, endTime, partySize)
        THEN [available |-> FALSE, reason |-> "Time slot already booked"]
        ELSE [available |-> TRUE, reason |-> ""]

\* the error list of validateBookingRequest; valid is errors = <<>>
validateBookingRequest(businessId, serviceId, staffMemberId, bookingDate, startTime, endTime, partySize, excludeBookingId) ==
    LET formatErrors ==
            IF ~MatchesTimeFormat(startTime) \/ ~MatchesTimeFormat(endTime)
            THEN <<"Invalid time format. Use HH:MM">> ELSE <<>>
        orderErrors ==
            IF Le(timeStringToMinutes(endTime), timeStringToMinutes(startTime))
            THEN <<"End time must be after start time">> ELSE <<>>
        pastErrors ==
            IF bookingDate < Today THEN <<"Cannot book in the past">> ELSE <<>>
        early == formatErrors \o orderErrors \o pastErrors
        found == getServiceDetails(serviceId, businessId)
    IN  IF found = {} THEN early \o <<"Service not found or inactive">>
        ELSE
        LET service == CHOOSE s \in found : TRUE
            staffErrors ==
                IF ~service.requires_staff THEN <<>>
                ELSE IF staffMemberId = NoStaff
                THEN <<"Staff member is required for this service">>
                ELSE IF ~canStaffPerformService(staffMemberId, serviceId)
                THEN <<"Selected staff member cannot perform this service">>
                ELSE <<>>
            errors == early \o staffErrors
        IN  IF errors # <<>> THEN errors
            ELSE LET availabilityResult ==
                        isTimeSlotAvailable(businessId, serviceId, staffMemberId,
                            bookingDate, startTime, endTime, partySize, excludeBookingId)
                 IN  IF availabilityResult.available THEN <<>>
                     ELSE <<availabilityResult.reason>>

(***************************************************************************)
(* AvailabilityService.getAvailableSlots                                   *)
(* A slot is a record [start_time, end_time, available, staff_member_id];  *)
(* staff_member_id is NoStaff where the slot carries none.  Queries        *)
(* without ORDER BY return staff members by id and rules by start time.    *)
(***************************************************************************)
\* Number.prototype.toString for a natural number
RECURSIVE toString(_)
toString(n) ==
    IF n < 10 THEN <<DigitChars[n + 1]>>
    ELSE toString(n \div 10) \o <<DigitChars[(n % 10) + 1]>>

\* str.padStart(targetLength, padString) for a one-character padString
RECURSIVE padStart(_, _, _)
padStart(str, targetLength, padString) ==
    IF Len(str) >= targetLength THEN str
    ELSE padStart(padString \o str, targetLength, padString)

\* `${hour.toString().padStart(2, '0')}:${minute.toString().padStart(2, '0')}`
startTimeStr(totalMinutes) ==
    padStart(toString(totalMinutes \div MinutesPerHour), 2, <<"0">>)
        \o <<":">> \o padStart(toString(totalMinutes % MinutesPerHour), 2, <<"0">>)

\* the for loop of generateTimeSlots from currentMinutes on
RECURSIVE slotsFrom(_, _, _, _)
slotsFrom(currentMinutes, endTotalMinutes, duration, slotDuration) ==
    IF ~Le(currentMinutes + duration, endTotalMinutes) THEN <<>>
    ELSE <<[start_time |-> startTimeStr(currentMinutes),
            end_time |-> startTimeStr(currentMinutes + duration),
            available |-> TRUE,
            staff_member_id |-> NoStaff]>>
         \o slotsFrom(currentMinutes + slotDuration, endTotalMinutes, duration, slotDuration)

\* a variant of slotsBetween whose slots must leave room for their buffer
slotsWithBufferBetween(startTotalMinutes, endTotalMinutes, duration, slotDuration) ==
    IF startTotalMinutes = NaN \/ endTotalMinutes = NaN THEN <<>>
    ELSE slotsFrom(startTotalMinutes, endTotalMinutes - (slotDuration - duration),
                   duration, slotDuration)

\* the loop once both bounds are in minutes; a NaN bound makes its test false
slotsBetween(startTotalMinutes, endTotalMinutes, duration, slotDuration) ==
    IF startTotalMinutes = NaN \/ endTotalMinutes = NaN THEN <<>>
    ELSE slotsFrom(startTotalMinutes, endTotalMinutes, duration, slotDuration)

\* a variant of generateTimeSlots whose loop runs while the slot starts in the window
slotsStartingBefore(startTime, endTime, duration, bufferAfter) ==
    slotsBetween(partsToMinutes(split(startTime)),
                 IF partsToMinutes(split(endTime)) = NaN THEN NaN
                 ELSE partsToMinutes(split(endTime)) + duration,
                 duration, duration + bufferAfter)

\* const slots = []; for (...) slots.push({start_time, end_time, available: true})
generateTimeSlots(startTime, endTime, duration, bufferAfter) ==
    slotsBetween(partsToMinutes(split(startTime)), partsToMinutes(split(endTime)),
                 duration, duration + bufferAfter)

\* the rows of a rule query as a list
RECURSIVE RuleRows(_)
RuleRows(rules) ==
    IF rules = {} THEN <<>>
    ELSE LET rule == CHOOSE r \in rules : \A o \in rules :
                        timeStringToMinutes(r.start_time) < timeStringToMinutes(o.start_time)
                        \/ /\ r.start_time = o.start_time
                           /\ timeStringToMinutes(r.end_time) <= timeStringToMinutes(o.end_time)
         IN  <<rule>> \o RuleRows(rules \ {rule})

\* the first row of a rule query alone
firstRuleOnly(rules) ==
    IF rules = {} THEN <<>>
    ELSE <<CHOOSE r \in rules : \A o \in rules :
                timeStringToMinutes(r.start_time) <= timeStringToMinutes(o.start_time)>>

\* SELECT ... FROM availability_rules WHERE staff_member_id = ? AND day_of_week = ? AND is_active = true
staffRules(staffId, dayOfWeek) ==
    RuleRows({r \in availability_rules :
                r.staff_member_id = staffId /\ r.day_of_week = dayOfWeek /\ r.is_active})

\* a variant of businessRules where one rule stands for the weekday
firstBusinessRule(businessId, dayOfWeek) ==
    firstRuleOnly({r \in availability_rules :
                     r.business_id = businessId /\ r.day_of_week = dayOfWeek /\ r.is_active})

\* a variant of businessRules that reads the inactive rules as well
businessRulesOfAnyActivity(businessId, dayOfWeek) ==
    RuleRows({r \in availability_rules :
                r.business_id = businessId /\ r.day_of_week = dayOfWeek})

\* SELECT ... FROM availability_rules WHERE business_id = ? AND day_of_week = ? AND is_active = true
businessRules(businessId, dayOfWeek) ==
    RuleRows({r \in availability_rules :
                r.business_id = businessId /\ r.day_of_week = dayOfWeek /\ r.is_active})

\* staff_services JOIN staff_members WHERE ss.service_id = ? AND sm.is_active = true
staffServices(serviceId) ==
    {ss.staff_member_id : ss \in {x \in staff_services :
        /\ x.service_id = serviceId
        /\ \E sm \in staff_members : sm.id = x.staff_member_id /\ sm.is_active}}

\* staffSlots.map(slot => ({...slot, staff_member_id: staffId}))
slotsWithStaff(staffSlots, staffId) ==
    [i \in 1..Len(staffSlots) |-> [staffSlots[i] EXCEPT !.staff_member_id = staffId]]

\* for (const rule of rules) availableSlots.push(...generateTimeSlots(rule...)), from rule i on
RECURSIVE slotsOfRules(_, _, _, _)
slotsOfRules(rules, i, service, staffId) ==
    IF i > Len(rules) THEN <<>>
    ELSE slotsWithStaff(generateTimeSlots(rules[i].start_time, rules[i].end_time,
                            service.duration_minutes, service.buffer_after_minutes),
                        staffId)
         \o slotsOfRules(rules, i + 1, service, staffId)

\* for (const staffMember of staffServices) ..., over the staff ids from staffId on
RECURSIVE slotsOfStaff(_, _, _, _)
slotsOfStaff(staffIds, staffId, service, dayOfWeek) ==
    IF \A id \in staffIds : id < staffId THEN <<>>
    ELSE (IF staffId \in staffIds
          THEN slotsOfRules(staffRules(staffId, dayOfWeek), 1, service, staffId)
          ELSE <<>>)
         \o slotsOfStaff(staffIds, staffId + 1, service, dayOfWeek)

\* the slots the weekly rules generate (lines 253-309)
generatedSlots(service, businessId, serviceId, dayOfWeek) ==
    IF service.requires_staff
    THEN slotsOfStaff(staffServices(serviceId), 1, service, dayOfWeek)
    ELSE slotsOfRules(businessRules(businessId, dayOfWeek), 1, service, NoStaff)

\* WHERE (business_id = ? [OR staff_member_id IN (SELECT staff_member_id FROM
\* staff_services WHERE service_id = ?)]) AND date = ?, in table order
specialAvailability(service, businessId, serviceId, date) ==
    SelectSeq(special_availability,
        LAMBDA sp : /\ sp.date = date
                    /\ \/ sp.business_id = businessId
                       \/ /\ service.requires_staff
                          /\ \E ss \in staff_services :
                                /\ ss.service_id = serviceId
                                /\ ss.staff_member_id = sp.staff_member_id)

\* a variant of withoutOverlapping that drops no slot
withClosedSlots(availableSlots, special) == availableSlots

\* availableSlots.filter(slot => !timeSlotsOverlap(slot..., special...))
withoutOverlapping(availableSlots, special) ==
    SelectSeq(availableSlots,
        LAMBDA slot : ~timeSlotsOverlap(slot.start_time, slot.end_time,
                                        special.start_time, special.end_time))

\* a variant of afterSpecials that reads no whole-day closure
RECURSIVE afterPartialClosures(_, _, _)
afterPartialClosures(availableSlots, specials, i) ==
    IF i > Len(specials) THEN availableSlots
    ELSE IF ~specials[i].is_available
            /\ specials[i].start_time # <<>> /\ specials[i].end_time # <<>>
    THEN afterPartialClosures(withoutOverlapping(availableSlots, specials[i]), specials, i + 1)
    ELSE afterPartialClosures(availableSlots, specials, i + 1)

\* the closure loop (lines 321-336) from row i on
RECURSIVE afterSpecials(_, _, _)
afterSpecials(availableSlots, specials, i) ==
    IF i > Len(specials) THEN availableSlots
    ELSE IF specials[i].is_available
    THEN afterSpecials(availableSlots, specials, i + 1)
    ELSE IF specials[i].start_time # <<>> /\ specials[i].end_time # <<>>
    THEN afterSpecials(withoutOverlapping(availableSlots, specials[i]), specials, i + 1)
    ELSE <<>>

\* a variant of existingBookings that returns the bookings of every status
bookingsOfAnyStatus(businessId, serviceId, date) ==
    {id \in DOMAIN bookings :
        /\ bookings[id].business_id = businessId
        /\ bookings[id].service_id = serviceId
        /\ bookings[id].booking_date = date}

\* SELECT ... FROM bookings WHERE business_id = ? AND service_id = ? AND
\* booking_date = ? AND status IN ('confirmed', 'pending'): the ids of the rows
existingBookings(businessId, serviceId, date) ==
    {id \in DOMAIN bookings :
        /\ bookings[id].business_id = businessId
        /\ bookings[id].service_id = serviceId
        /\ bookings[id].booking_date = date
        /\ bookings[id].status \in {"confirmed", "pending"}}

\* a variant of marksUnavailable that counts every overlapping booking
overlapMarksUnavailable(service, slot, booking) ==
    timeSlotsOverlap(slot.start_time, slot.end_time, booking.start_time, booking.end_time)

\* a variant of marksUnavailable that compares no staff member
marksWhateverStaff(service, slot, booking) ==
    /\ timeSlotsOverlap(slot.start_time, slot.end_time, booking.start_time, booking.end_time)
    /\ service.requires_staff \/ booking.party_size >= service.capacity

\* one booking of the marking loop (lines 349-371): does it return the slot with
\* available: false?
marksUnavailable(service, slot, booking) ==
    /\ timeSlotsOverlap(slot.start_time, slot.end_time, booking.start_time, booking.end_time)
    /\ IF service.requires_staff
       THEN slot.staff_member_id = booking.staff_member_id
       ELSE booking.party_size >= service.capacity

\* a variant of markedSlots that drops the slots it would flag
unbookedSlots(availableSlots, service, existing) ==
    SelectSeq(availableSlots,
        LAMBDA slot : ~\E id \in existing : marksUnavailable(service, slot, bookings[id]))

\* availableSlots.map(slot => ...) over the rows of the conflict query
markedSlots(availableSlots, service, existing) ==
    [i \in 1..Len(availableSlots) |->
        IF \E id \in existing : marksUnavailable(service, availableSlots[i], bookings[id])
        THEN [availableSlots[i] EXCEPT !.available = FALSE]
        ELSE availableSlots[i]]

\* one step of the sort: slot goes behind the slots that do not start later
RECURSIVE insertByStart(_, _)
insertByStart(sorted, slot) ==
    IF sorted = <<>> THEN <<slot>>
    ELSE IF timeStringToMinutes(sorted[Len(sorted)].start_time)
                <= timeStringToMinutes(slot.start_time)
    THEN Append(sorted, slot)
    ELSE Append(insertByStart(SubSeq(sorted, 1, Len(sorted) - 1), slot), sorted[Len(sorted)])

\* the sort over the first n slots
RECURSIVE sortedByStart(_, _)
sortedByStart(availableSlots, n) ==
    IF n = 0 THEN <<>>
    ELSE insertByStart(sortedByStart(availableSlots, n - 1), availableSlots[n])

\* a variant of uniqueSlots that keeps every slot
repeatedSlots(availableSlots) == availableSlots

\* filter((slot, index, array) => index === array.findIndex(same start, end, staff))
uniqueSlots(availableSlots) ==
    LET firstIndex(slot) ==
            CHOOSE i \in 1..Len(availableSlots) :
                /\ availableSlots[i].start_time = slot.start_time
                /\ availableSlots[i].end_time = slot.end_time
                /\ availableSlots[i].staff_member_id = slot.staff_member_id
                /\ \A j \in 1..(i - 1) :
                      ~(/\ availableSlots[j].start_time = slot.start_time
                        /\ availableSlots[j].end_time = slot.end_time
                        /\ availableSlots[j].staff_member_id = slot.staff_member_id)
        kept == {i \in 1..Len(availableSlots) : firstIndex(availableSlots[i]) = i}
        nth(k) == CHOOSE i \in kept : Cardinality({j \in kept : j < i}) = k - 1
    IN  [k \in 1..Cardinality(kept) |-> availableSlots[nth(k)]]

\* a variant of sort that leaves the list as it is
unsorted(availableSlots) == availableSlots

\* availableSlots.sort((a, b) => minutes(a.start_time) - minutes(b.start_time)),
\* a stable sort
sort(availableSlots) == sortedByStart(availableSlots, Len(availableSlots))

\* lines 311-387 for the slots the rules generate
slotsOfDay(service, businessId, serviceId, date, availableSlots) ==
    uniqueSlots(
        sort(
            markedSlots(
                afterSpecials(availableSlots,
                              specialAvailability(service, businessId, serviceId, date), 1),
                service, existingBookings(businessId, serviceId, date))))

\* the call for a service the first query found
getAvailableSlotsOf(service, businessId, serviceId, date) ==
    [threw |-> FALSE,
     date |-> date,
     day_of_week |-> getDay(date),
     time_slots |-> slotsOfDay(service, businessId, serviceId, date,
                       generatedSlots(service, businessId, serviceId, getDay(date)))]

\* yields the DayAvailability the call returns; threw where it throws
\* 'Service not found'
getAvailableSlots(businessId, serviceId, date) ==
    IF getServiceDetails(serviceId, businessId) = {}
    THEN [threw |-> TRUE, date |-> date, day_of_week |-> getDay(date), time_slots |-> <<>>]
    ELSE getAvailableSlotsOf(CHOOSE s \in getServiceDetails(serviceId, businessId) : TRUE,
                             businessId, serviceId, date)

(***************************************************************************)
(* AvailabilityService.getWeekAvailability                                 *)
(* The call builds its seven dates with Date: it reads startDate as an     *)
(* instant (00:00 UTC of the date), steps it with getDate and setDate,     *)
(* which work on the wall clock of the time zone the process runs in, and  *)
(* reads each date back with toISOString, which is UTC.  An instant is a   *)
(* number of minutes since 00:00 UTC of day 0.  A zone is "UTC" or         *)
(* "Europe/Berlin": one hour ahead of UTC until summer time begins on the  *)
(* Sunday of the calendar (day 6) at 01:00 UTC, two hours ahead from then. *)
(***************************************************************************)
MinutesPerDay == 24 * MinutesPerHour

TimeZones == {"UTC", "Europe/Berlin"}

\* the instant summer time begins in Europe/Berlin
SummerTimeFrom == 6 * MinutesPerDay + MinutesPerHour

\* the minutes the zone's wall clock is ahead of UTC at an instant
offsetAt(zone, instant) ==
    IF zone = "UTC" THEN 0
    ELSE IF instant < SummerTimeFrom THEN MinutesPerHour ELSE 2 * MinutesPerHour

\* the minutes the zone is ahead of UTC when its wall clock shows `wall`; a
\* wall time the clock skips (02:00-03:00 of day 6) is read with the winter offset
offsetOfWall(zone, wall) ==
    IF zone = "UTC" THEN 0
    ELSE IF wall < SummerTimeFrom + 2 * MinutesPerHour THEN MinutesPerHour ELSE 2 * MinutesPerHour

\* the slug column of the business table
booking_link_slug(id) == IF id = 1 THEN "salon" ELSE "atelier"

\* SELECT id FROM business WHERE booking_link_slug = ? AND is_active = true;
\* 0 stands for null
getBusinessIdFromSlug(slug) ==
    IF \E id \in DOMAIN business : booking_link_slug(id) = slug /\ business[id].is_active
    THEN CHOOSE id \in DOMAIN business : booking_link_slug(id) = slug /\ business[id].is_active
    ELSE 0

\* new Date(startDate)
newDate(date) == date * MinutesPerDay

\* Date.getDate(): the calendar day the zone's wall clock shows at the instant
getDate(zone, instant) == (instant + offsetAt(zone, instant)) \div MinutesPerDay

\* the wall clock after setDate(day): that day, the time of day unchanged
wallOn(zone, instant, day) ==
    (day * MinutesPerDay) + ((instant + offsetAt(zone, instant)) % MinutesPerDay)

\* Date.setDate(day): the instant at which the zone's wall clock shows that day
\* and the time of day it showed before
setDate(zone, instant, day) ==
    wallOn(zone, instant, day) - offsetOfWall(zone, wallOn(zone, instant, day))

\* toISOString().split('T')[0]: the calendar day of the instant in UTC
toISODate(instant) == instant \div MinutesPerDay

\* currentDate.getDay(): the weekday the zone's wall clock shows
getDayOf(zone, instant) == getDay(getDate(zone, instant))

\* currentDate of round i of the loop
currentDateOf(zone, start, i) == setDate(zone, start, getDate(zone, start) + i)

\* the record the catch branch pushes; a date is written as its day in UTC
emptyDay(zone, currentDate) ==
    [date |-> toISODate(currentDate), day_of_week |-> getDayOf(zone, currentDate),
     time_slots |-> <<>>]

\* the DayAvailability a getAvailableSlots call resolves with
dayAvailability(day) ==
    [date |-> day.date, day_of_week |-> day.day_of_week, time_slots |-> day.time_slots]

\* one round of the loop: getAvailableSlots for the date read back from
\* currentDate, the empty day when the call throws or the query fails
weekDay(zone, businessId, serviceId, currentDate, fails) ==
    IF fails \/ getAvailableSlots(businessId, serviceId, toISODate(currentDate)).threw
    THEN emptyDay(zone, currentDate)
    ELSE dayAvailability(getAvailableSlots(businessId, serviceId, toISODate(currentDate)))

\* the seven rounds; `failing` holds the rounds whose database query fails
weekOf(zone, failing, businessId, serviceId, start) ==
    [i \in 1..7 |->
        weekDay(zone, businessId, serviceId, currentDateOf(zone, start, i - 1), (i - 1) \in failing)]

\* getWeekAvailability(businessSlug, serviceId, startDate) of a process in
\* `zone`: [threw, days]
getWeekAvailability(zone, failing, businessSlug, serviceId, startDate) ==
    IF getBusinessIdFromSlug(businessSlug) = 0
    THEN [threw |-> TRUE, days |-> <<>>]
    ELSE [threw |-> FALSE,
          days |-> weekOf(zone, failing, getBusinessIdFromSlug(businessSlug), serviceId,
                          newDate(startDate))]

(***************************************************************************)
(* BookingService                                                          *)
(* Each call is an operator that yields what the call returns and the      *)
(* bookings table it leaves: [success, errors, bookings].  Messages,       *)
(* statuses and cancellation reasons are plain strings ("" for NULL).      *)
(***************************************************************************)
\* party_size = 1 when the input leaves it undefined
PartySizeOf(input) == IF input.party_size = <<>> THEN 1 ELSE input.party_size[1]

\* createBooking after its validation: the validator's errors when it has any,
\* then the look-up of the service
afterValidation(input, errors) ==
    IF errors # <<>> THEN errors
    ELSE IF getServiceDetails(input.service_id, input.business_id) = {}
    THEN <<"Service not found">>
    ELSE <<>>

\* what createBooking returns before it reaches its INSERT; <<>> when it reaches it
createBookingErrors(input) ==
    IF ~(input.business_id \in DOMAIN business /\ business[input.business_id].is_active)
    THEN <<"Business not found or inactive">>
    ELSE IF business[input.business_id].require_phone /\ input.customer_phone = <<>>
    THEN <<"Phone number is required for this business">>
    ELSE afterValidation(input,
            validateBookingRequest(input.business_id, input.service_id,
                input.staff_member_id, input.booking_date,
                input.start_time, input.end_time, PartySizeOf(input), 0))

\* the row the INSERT adds
NewBooking(input) ==
    [business_id |-> input.business_id,
     service_id |-> input.service_id,
     staff_member_id |-> input.staff_member_id,
     customer_email |-> input.customer_email,
     customer_phone |-> input.customer_phone,
     booking_date |-> input.booking_date,
     start_time |-> input.start_time,
     end_time |-> input.end_time,
     party_size |-> PartySizeOf(input),
     status |-> "pending",
     cancelled_at |-> <<>>,
     cancellation_reason |-> "",
     updated_at |-> now]

\* the return of createBooking: with the errors of its checks, or after its INSERT
insertUnlessErrors(input, errors) ==
    IF errors # <<>>
    THEN [success |-> FALSE, errors |-> errors, bookings |-> bookings]
    ELSE [success |-> TRUE, errors |-> <<>>, bookings |-> Append(bookings, NewBooking(input))]

\* a variant of insertUnlessErrors that runs the INSERT whatever the checks returned
insertAnyway(input, errors) ==
    [success |-> errors = <<>>, errors |-> errors,
     bookings |-> Append(bookings, NewBooking(input))]

\* a variant of createBooking that runs its INSERT whatever the checks returned
createBookingInsertsAnyway(input) == insertAnyway(input, createBookingErrors(input))

createBooking(input) == insertUnlessErrors(input, createBookingErrors(input))

\* updates.f || existing.f: is the patch's value truthy?  A date is truthy whenever
\* it is given, a string unless it is empty, a number unless it is 0.
Truthy(updates, field) ==
    /\ field \in DOMAIN updates
    /\ CASE field = "booking_date" -> TRUE
         [] field = "party_size" -> updates[field] # 0
         [] OTHER -> updates[field] # <<>>

OrExisting(updates, existingBooking, field) ==
    IF Truthy(updates, field) THEN updates[field] ELSE existingBooking[field]

\* if (updates.booking_date || updates.start_time || updates.end_time || updates.party_size)
NeedsValidation(updates) ==
    \/ Truthy(updates, "booking_date")
    \/ Truthy(updates, "start_time")
    \/ Truthy(updates, "end_time")
    \/ Truthy(updates, "party_size")

\* a variant of buildUpdateClause that takes every field of the patch
buildUpdateClauseOfAnyField(updates, allowedFields) == DOMAIN updates

\* DatabaseUtils.buildUpdateClause: the columns of the SET clause
buildUpdateClause(updates, allowedFields) ==
    {field \in allowedFields : field \in DOMAIN updates}

\* a variant of StampsCancelledAt that does not look at the status the booking has
stampsWheneverCancelled(updates, existingBooking) ==
    /\ "status" \in DOMAIN updates
    /\ updates.status = "cancelled"

\* does the UPDATE stamp cancelled_at?
StampsCancelledAt(updates, existingBooking) ==
    /\ "status" \in DOMAIN updates
    /\ updates.status = "cancelled"
    /\ existingBooking.status # "cancelled"

\* the row after UPDATE bookings SET <setClause>[, cancelled_at = NOW()], updated_at = NOW()
UpdatedBooking(existingBooking, updates, setClause) ==
    [field \in DOMAIN existingBooking |->
        IF field \in setClause THEN updates[field]
        ELSE IF field = "cancelled_at" /\ StampsCancelledAt(updates, existingBooking)
        THEN <<now>>
        ELSE IF field = "updated_at" THEN now
        ELSE existingBooking[field]]

updateBooking(bookingId, updates) ==
    IF bookingId \notin DOMAIN bookings
    THEN [success |-> FALSE, errors |-> <<"Booking not found">>, bookings |-> bookings]
    ELSE
    LET existingBooking == bookings[bookingId]
        errors ==
            IF NeedsValidation(updates)
            THEN validateBookingRequest(
                    existingBooking.business_id,
                    existingBooking.service_id,
                    existingBooking.staff_member_id,
                    OrExisting(updates, existingBooking, "booking_date"),
                    OrExisting(updates, existingBooking, "start_time"),
                    OrExisting(updates, existingBooking, "end_time"),
                    OrExisting(updates, existingBooking, "party_size"),
                    bookingId)
            ELSE <<>>
        setClause == buildUpdateClause(updates, ALLOWED_UPDATE_FIELDS)
    IN  IF errors # <<>>
        THEN [success |-> FALSE, errors |-> errors, bookings |-> bookings]
        ELSE IF setClause = {}
        THEN [success |-> FALSE, errors |-> <<"No valid fields to update">>,
              bookings |-> bookings]
        ELSE [success |-> TRUE, errors |-> <<>>,
              bookings |-> [bookings EXCEPT
                              ![bookingId] = UpdatedBooking(existingBooking, updates, setClause)]]

\* a variant of emailMatches that compares the two strings as they are
emailIdentical(bookingEmail, customerEmail) == bookingEmail = customerEmail

\* booking.customer_email.toLowerCase() !== customerEmail.toLowerCase()
emailMatches(bookingEmail, customerEmail) ==
    toLowerCase(bookingEmail) = toLowerCase(customerEmail)

\* booking.cancellation_hours || 24
cancellationHoursOf(cancellation_hours) ==
    IF cancellation_hours = <<>> \/ cancellation_hours[1] = 0
    THEN DefaultCancellationHours
    ELSE cancellation_hours[1]

\* hoursUntilBooking < cancellationHours, in minutes; new Date(`${date} ${start}`)
\* is an invalid date when the start time does not parse, and the test is then false
tooLateToCancel(booking, cancellationHours) ==
    LET startMinutes == timeStringToMinutes(booking.start_time)
        bookingDateTime == booking.booking_date * 24 * MinutesPerHour + startMinutes
    IN  /\ startMinutes # NaN
        /\ bookingDateTime - now < cancellationHours * MinutesPerHour

policyError(cancellationHours) ==
    CASE cancellationHours = 24 ->
            "Cancellation must be made at least 24 hours before the booking"
      [] cancellationHours = 2 ->
            "Cancellation must be made at least 2 hours before the booking"
      [] OTHER ->
            "Cancellation must be made at least N hours before the booking"

\* a variant of cancelBooking that does not look at the booking's status
cancelBookingWhateverStatus(bookingId, customerEmail, reason) ==
    IF bookingId \notin DOMAIN bookings
    THEN [success |-> FALSE, errors |-> <<"Booking not found">>, bookings |-> bookings]
    ELSE
    LET booking == bookings[bookingId]
        cancellationHours ==
            cancellationHoursOf(business[booking.business_id].cancellation_hours)
    IN  IF ~emailMatches(booking.customer_email, customerEmail)
        THEN [success |-> FALSE, errors |-> <<"Email does not match booking">>,
              bookings |-> bookings]
        ELSE IF tooLateToCancel(booking, cancellationHours)
        THEN [success |-> FALSE, errors |-> <<policyError(cancellationHours)>>,
              bookings |-> bookings]
        ELSE updateBooking(bookingId,
                [status |-> "cancelled",
                 cancellation_reason |-> IF reason # "" THEN reason
                                         ELSE "Customer cancellation"])

cancelBooking(bookingId, customerEmail, reason) ==
    IF bookingId \notin DOMAIN bookings
    THEN [success |-> FALSE, errors |-> <<"Booking not found">>, bookings |-> bookings]
    ELSE
    LET booking == bookings[bookingId]
        cancellationHours ==
            cancellationHoursOf(business[booking.business_id].cancellation_hours)
    IN  IF ~emailMatches(booking.customer_email, customerEmail)
        THEN [success |-> FALSE, errors |-> <<"Email does not match booking">>,
              bookings |-> bookings]
        ELSE IF booking.status = "cancelled"
        THEN [success |-> FALSE, errors |-> <<"Booking is already cancelled">>,
              bookings |-> bookings]
        ELSE IF tooLateToCancel(booking, cancellationHours)
        THEN [success |-> FALSE, errors |-> <<policyError(cancellationHours)>>,
              bookings |-> bookings]
        ELSE updateBooking(bookingId,
                [status |-> "cancelled",
                 cancellation_reason |-> IF reason # "" THEN reason
                                         ELSE "Customer cancellation"])

(***************************************************************************)
(* State machine                                                           *)
(***************************************************************************)
\* the call returns: the table it leaves and what the caller gets
Returned(op, result) ==
    /\ bookings' = result.bookings
    /\ lastResult' = [op |-> op, success |-> result.success, errors |-> result.errors]

\* what the caller of getAvailableSlots gets, with the arguments of the call
Answered(query, day) ==
    [op |-> "getAvailableSlots", query |-> query, success |-> ~day.threw,
     errors |-> IF day.threw THEN <<"Service not found">> ELSE <<>>,
     date |-> day.date, day_of_week |-> day.day_of_week, time_slots |-> day.time_slots]

\* what the caller of getWeekAvailability gets, with the arguments of the call,
\* the zone of the process and the rounds that failed
AnsweredWeek(query, zone, failing, week) ==
    [op |-> "getWeekAvailability", query |-> query, zone |-> zone, failing |-> failing,
     success |-> ~week.threw,
     errors |-> IF week.threw THEN <<"Business not found">> ELSE <<>>,
     days |-> week.days]

\* what the caller of validateBookingRequest gets: valid and errors
Validated(request, errors) ==
    [op |-> "validateBookingRequest", request |-> request,
     success |-> errors = <<>>, errors |-> errors]

NoRequests == [r \in 1..NumRequests |-> [pc |-> "idle", input |-> <<>>, seen |-> 0, row |-> 0]]

\* one whole createBooking call, nothing else running
CreateBooking(input) ==
    /\ Returned("createBooking", createBooking(input))
    /\ UNCHANGED <<business, now, requests>>

UpdateBooking(bookingId, updates) ==
    /\ Returned("updateBooking", updateBooking(bookingId, updates))
    /\ UNCHANGED <<business, now, requests>>

CancelBooking(bookingId, customerEmail, reason) ==
    /\ Returned("cancelBooking", cancelBooking(bookingId, customerEmail, reason))
    /\ UNCHANGED <<business, now, requests>>

\* a variant of GetAvailableSlots that cancels the bookings it read
GetAvailableSlotsCancelling(businessId, serviceId, date) ==
    /\ lastResult' = Answered(<<businessId, serviceId, date>>,
                               getAvailableSlots(businessId, serviceId, date))
    /\ bookings' = [i \in DOMAIN bookings |-> [bookings[i] EXCEPT !.status = "cancelled"]]
    /\ UNCHANGED <<business, now, requests>>

\* a day passes: new Date() and NOW() read a later instant
Tick ==
    /\ now < LastClockDay * 24 * MinutesPerHour
    /\ now' = now + 24 * MinutesPerHour
    /\ UNCHANGED <<bookings, business, lastResult, requests>>

\* one whole getAvailableSlots call; lastResult takes the DayAvailability it returns
GetAvailableSlots(businessId, serviceId, date) ==
    /\ lastResult' = Answered(<<businessId, serviceId, date>>,
                               getAvailableSlots(businessId, serviceId, date))
    /\ UNCHANGED <<bookings, business, now, requests>>

\* one whole getWeekAvailability call of a process running in `zone`, the
\* database queries of the rounds in `failing` failing
GetWeekAvailability(zone, failing, businessSlug, serviceId, startDate) ==
    /\ lastResult' = AnsweredWeek(<<businessSlug, serviceId, startDate>>, zone, failing,
                                   getWeekAvailability(zone, failing, businessSlug, serviceId, startDate))
    /\ UNCHANGED <<bookings, business, now, requests>>

\* one whole validateBookingRequest call for a new booking (no excludeBookingId);
\* lastResult takes what it returns, with the arguments of the call
ValidateBookingRequest(businessId, serviceId, staffMemberId, bookingDate, startTime, endTime, partySize) ==
    /\ lastResult' = Validated(<<businessId, serviceId, staffMemberId, bookingDate,
                                 startTime, endTime, partySize>>,
                               validateBookingRequest(businessId, serviceId, staffMemberId,
                                   bookingDate, startTime, endTime, partySize, 0))
    /\ UNCHANGED <<bookings, business, now, requests>>

\* one generateTimeSlots call with the arguments drawn
GenerateTimeSlots ==
    /\ lastResult.op = "call"
    /\ lastResult.function = "generateTimeSlots"
    /\ lastResult' = [op |-> "generateTimeSlots", arguments |-> lastResult.arguments,
                      success |-> TRUE, errors |-> <<>>,
                      time_slots |-> generateTimeSlots(lastResult.arguments[1],
                                         lastResult.arguments[2], lastResult.arguments[3],
                                         lastResult.arguments[4])]
    /\ UNCHANGED <<bookings, business, now, requests>>

\* one timeStringToMinutes call with the argument drawn: the function has no
\* throw and returns the number computed, NaN included
TimeStringToMinutes ==
    /\ lastResult.op = "call"
    /\ lastResult.function = "timeStringToMinutes"
    /\ lastResult' = [op |-> "timeStringToMinutes", arguments |-> lastResult.arguments,
                      success |-> TRUE, errors |-> <<>>,
                      minutes |-> timeStringToMinutes(lastResult.arguments[1])]
    /\ UNCHANGED <<bookings, business, now, requests>>

\* one timeSlotsOverlap call with the arguments drawn
TimeSlotsOverlap ==
    /\ lastResult.op = "call"
    /\ lastResult.function = "timeSlotsOverlap"
    /\ lastResult' = [op |-> "timeSlotsOverlap", arguments |-> lastResult.arguments,
                      success |-> TRUE, errors |-> <<>>,
                      overlap |-> timeSlotsOverlap(lastResult.arguments[1],
                                      lastResult.arguments[2], lastResult.arguments[3],
                                      lastResult.arguments[4])]
    /\ UNCHANGED <<bookings, business, now, requests>>

\* createBooking of request r up to its INSERT (lines 390-429): every read of the
\* call; the call returns here when a check fails
ValidateCreate(r, input) ==
    /\ requests[r].pc = "idle"
    /\ LET errors == createBookingErrors(input) IN
       IF errors # <<>>
       THEN /\ requests' = [requests EXCEPT ![r] =
                    [pc |-> "failed", input |-> <<input>>, seen |-> Len(bookings), row |-> 0]]
            /\ lastResult' = [op |-> "createBooking", success |-> FALSE, errors |-> errors]
       ELSE /\ requests' = [requests EXCEPT ![r] =
                    [pc |-> "validated", input |-> <<input>>, seen |-> Len(bookings), row |-> 0]]
            /\ UNCHANGED lastResult
    /\ UNCHANGED <<bookings, business, now>>

\* the INSERT of request r (lines 431-443) and the return of the call
InsertCreate(r) ==
    /\ requests[r].pc = "validated"
    /\ bookings' = Append(bookings, NewBooking(requests[r].input[1]))
    /\ requests' = [requests EXCEPT ![r].pc = "inserted", ![r].row = Len(bookings) + 1]
    /\ lastResult' = [op |-> "createBooking", success |-> TRUE, errors |-> <<>>]
    /\ UNCHANGED <<business, now>>

(***************************************************************************)
(* Requests                                                                *)
(***************************************************************************)
CreateInput(service_id, staff_member_id, booking_date, start_time, end_time, party_size) ==
    [business_id |-> 1, service_id |-> service_id, staff_member_id |-> staff_member_id,
     customer_email |-> EmailAnn, customer_phone |-> Phone,
     booking_date |-> booking_date, start_time |-> start_time, end_time |-> end_time,
     party_size |-> party_size]

\* requests for day 1: staff 1 works 09:00-11:00, staff 2 works 10:00-12:00
StaffInputs ==
    {CreateInput(1, st, 1, slot[1], slot[2], <<>>) :
        st \in {1, 2}, slot \in {<<T0900, T1000>>, <<T1000, T1100>>}}

CapacityInputs ==
    {CreateInput(2, NoStaff, 1, T1000, T1100, p) : p \in {<<>>, <<2>>}}

BaseInputs == {CreateInput(1, 1, 1, T1000, T1100, <<>>),
               CreateInput(2, NoStaff, 1, T1000, T1100, <<>>)}

\* each differs from a base request in one respect
EdgeInputs ==
    {[b EXCEPT !.business_id = x] : b \in BaseInputs, x \in {2, 3}}
    \cup {[b EXCEPT !.service_id = 3] : b \in BaseInputs}
    \cup {[b EXCEPT !.booking_date = d] : b \in BaseInputs, d \in {0, 2, 3}}
    \cup {[b EXCEPT !.start_time = T1100, !.end_time = T1200] : b \in BaseInputs}
    \cup {[b EXCEPT !.end_time = T1200] : b \in BaseInputs}
    \cup {[b EXCEPT !.end_time = T2500] : b \in BaseInputs}
    \cup {[b EXCEPT !.end_time = T0900] : b \in BaseInputs}
    \cup {[b EXCEPT !.customer_phone = <<>>] : b \in BaseInputs}
    \cup {CreateInput(1, 3, 1, T1000, T1100, <<>>),
          CreateInput(1, NoStaff, 1, T1000, T1100, <<>>),
          CreateInput(2, 2, 1, T1000, T1100, <<>>),
          CreateInput(2, NoStaff, 1, T900, T1000, <<>>),
          CreateInput(2, NoStaff, 1, T1000, T1100, <<3>>)}

CreateInputs == StaffInputs \cup CapacityInputs \cup EdgeInputs

CancelEmails == {EmailAnn, EmailAnnLower, EmailAnnUpper, EmailBob}

\* a patch that sets nothing but the status
StatusPatches == { [status |-> s] : s \in BookingStatuses }

\* a patch that changes the party size
CapacityPatches == { [party_size |-> 2] }

LifecycleInputs == { CreateInput(1, 1, 1, T1000, T1100, <<>>) }

LifecycleEmails == {EmailAnnLower, EmailBob}

\* cancellation_hours of the business: NULL, 0 and 2
CancellationHoursValues == {<<>>, <<0>>, <<2>>}

\* day 0 08:00, day 1 07:30, day 1 09:30
ClockInstants == {8 * 60, 24 * 60 + 7 * 60 + 30, 24 * 60 + 9 * 60 + 30}

\* requests for the capacity-based service, 09:00-11:00 and 10:00-11:00
CapacityOnlyInputs ==
    {CreateInput(2, NoStaff, 1, s, T1100, p) : s \in {T0900, T1000}, p \in {<<>>, <<2>>}}

\* requests of the interleaved runs: staff 1 at 09:00-10:00, 09:00-11:00 and
\* 10:00-11:00, staff 2 at 10:00-11:00 and, outside working hours, 09:00-10:00
RaceInputs ==
    {CreateInput(1, 1, 1, T0900, T1000, <<>>),
     CreateInput(1, 1, 1, T0900, T1100, <<>>),
     CreateInput(1, 1, 1, T1000, T1100, <<>>),
     CreateInput(1, 2, 1, T1000, T1100, <<>>),
     CreateInput(1, 2, 1, T0900, T1000, <<>>)}

\* requests for day 1 10:00-11:00, one for each staff member
SlotInputs ==
    {CreateInput(1, 1, 1, T1000, T1100, <<>>),
     CreateInput(1, 2, 1, T1000, T1100, <<>>)}

\* requests for day 1 10:00-11:00: the service of capacity 2 with one and with
\* two guests, the service of capacity 1 with one guest and with party_size 0
CapacitySlotInputs ==
    {CreateInput(2, NoStaff, 1, T1000, T1100, <<>>),
     CreateInput(2, NoStaff, 1, T1000, T1100, <<2>>),
     CreateInput(4, NoStaff, 1, T1000, T1100, <<>>),
     CreateInput(4, NoStaff, 1, T1000, T1100, <<0>>)}

CapacityServices == {2, 4}

\* a patch that confirms a booking or closes it
SlotPatches == { [status |-> s] : s \in {"confirmed", "completed", "no_show"} }

\* the days asked for: day 1 and the Monday before it
SlotDates == {0, 1}

\* the days of the calendar: day 0 is a Monday, day 9 the Wednesday after next
CalendarDates == 0..9

\* the services asked for, 6 being one the table does not hold
CalendarServices == 1..6

CalendarBusinesses == {1, 2}

\* requests on the Saturday of the split shifts, one of them in the gap
CalendarInputs ==
    {CreateInput(1, 1, 5, T1100, T1200, <<>>),
     CreateInput(2, NoStaff, 5, T1100, T1200, <<>>),
     CreateInput(2, NoStaff, 5, T1000, T1100, <<>>),
     CreateInput(2, NoStaff, 7, T1030, T1130, <<>>),
     CreateInput(1, 2, 9, T1100, T1200, <<>>)}

(***************************************************************************)
(* Spec: createBooking and cancelBooking calls run one at a time, at day 1 *)
(* 07:30, against a business with cancellation_hours = 2.                  *)
(***************************************************************************)
Init ==
    /\ bookings = <<>>
    /\ business = BusinessTable(<<2>>)
    /\ now = 24 * 60 + 7 * 60 + 30
    /\ lastResult = [op |-> "none", success |-> TRUE, errors |-> <<>>]
    /\ requests = NoRequests

Next ==
    \/ \E input \in CreateInputs :
            Len(bookings) < MaxBookings /\ CreateBooking(input)
    \/ \E bookingId \in 1..MaxBookings, customerEmail \in CancelEmails :
            CancelBooking(bookingId, customerEmail, "")

Spec == Init /\ [][Next]_vars

(***************************************************************************)
(* SpecLifecycle: the three calls one at a time on bookings of staff 1,    *)
(* with status patches; the run starts at one of three instants against a  *)
(* business whose cancellation_hours is NULL, 0 or 2.                      *)
(***************************************************************************)
InitLifecycle ==
    /\ bookings = <<>>
    /\ business \in {BusinessTable(ch) : ch \in CancellationHoursValues}
    /\ now \in ClockInstants
    /\ lastResult = [op |-> "none", success |-> TRUE, errors |-> <<>>]
    /\ requests = NoRequests

NextLifecycle ==
    \/ \E input \in LifecycleInputs :
            Len(bookings) < MaxLifecycleBookings /\ CreateBooking(input)
    \/ \E bookingId \in 1..MaxLifecycleBookings, updates \in StatusPatches :
            UpdateBooking(bookingId, updates)
    \/ \E bookingId \in 1..MaxLifecycleBookings, customerEmail \in LifecycleEmails :
            CancelBooking(bookingId, customerEmail, "")

SpecLifecycle == InitLifecycle /\ [][NextLifecycle]_vars

(***************************************************************************)
(* SpecCapacity: the three calls one at a time on the capacity-based       *)
(* service (capacity 2).                                                   *)
(***************************************************************************)
NextCapacity ==
    \/ \E input \in CapacityOnlyInputs :
            Len(bookings) < MaxCapacityBookings /\ CreateBooking(input)
    \/ \E bookingId \in 1..MaxCapacityBookings, updates \in CapacityPatches :
            UpdateBooking(bookingId, updates)
    \/ \E bookingId \in 1..MaxCapacityBookings :
            CancelBooking(bookingId, EmailAnn, "")

SpecCapacity == Init /\ [][NextCapacity]_vars

(***************************************************************************)
(* SpecRace: NumRequests createBooking calls whose validation and INSERT   *)
(* interleave.                                                             *)
(***************************************************************************)
NextRace ==
    \/ \E r \in 1..NumRequests, input \in RaceInputs : ValidateCreate(r, input)
    \/ \E r \in 1..NumRequests : InsertCreate(r)

SpecRace == Init /\ [][NextRace]_vars

(***************************************************************************)
(* SpecSlots: the three calls one at a time on day 1 10:00-11:00 of both   *)
(* staff members, and getAvailableSlots calls for the staff-required       *)
(* service.                                                                *)
(***************************************************************************)
NextSlots ==
    \/ \E input \in SlotInputs :
            Len(bookings) < MaxSlotBookings /\ CreateBooking(input)
    \/ \E bookingId \in 1..MaxSlotBookings, updates \in SlotPatches :
            UpdateBooking(bookingId, updates)
    \/ \E bookingId \in 1..MaxSlotBookings :
            CancelBooking(bookingId, EmailAnn, "")
    \/ \E date \in SlotDates :
            GetAvailableSlots(1, 1, date)

SpecSlots == Init /\ [][NextSlots]_vars

(***************************************************************************)
(* SpecCapacitySlots: createBooking and cancelBooking calls one at a time  *)
(* on day 1 10:00-11:00 of the capacity-based services, and                *)
(* getAvailableSlots calls for them.                                       *)
(***************************************************************************)
NextCapacitySlots ==
    \/ \E input \in CapacitySlotInputs :
            Len(bookings) < MaxSlotBookings /\ CreateBooking(input)
    \/ \E bookingId \in 1..MaxSlotBookings :
            CancelBooking(bookingId, EmailAnn, "")
    \/ \E serviceId \in CapacityServices :
            GetAvailableSlots(1, serviceId, 1)

SpecCapacitySlots == Init /\ [][NextCapacitySlots]_vars

(***************************************************************************)
(* SpecCalendar: getAvailableSlots calls for every service and every day   *)
(* of the calendar, between createBooking and cancelBooking calls.         *)
(***************************************************************************)
NextCalendar ==
    \/ \E input \in CalendarInputs :
            Len(bookings) < MaxCalendarBookings /\ CreateBooking(input)
    \/ \E bookingId \in 1..MaxCalendarBookings :
            CancelBooking(bookingId, EmailAnn, "")
    \/ \E businessId \in CalendarBusinesses, serviceId \in CalendarServices, date \in CalendarDates :
            GetAvailableSlots(businessId, serviceId, date)

SpecCalendar == Init /\ [][NextCalendar]_vars

(***************************************************************************)
(* SpecWeek: getWeekAvailability calls for the week from Monday (day 0)    *)
(* and the week from Thursday (day 3), in either zone, with no failing     *)
(* query or one, between createBooking and cancelBooking calls.            *)
(***************************************************************************)
\* the slugs asked for: an active business, an inactive one, an unknown one
WeekSlugs == {"salon", "atelier", "nowhere"}

\* the services asked for, 6 being one the table does not hold
WeekServices == {1, 2, 6}

WeekStartDates == {0, 3}

\* the rounds of the loop whose query fails
FailingRounds == {{}, {0}, {4}, {6}}

\* requests on the Saturday both weeks hold
WeekInputs ==
    {CreateInput(1, 1, 5, T1100, T1200, <<>>),
     CreateInput(2, NoStaff, 5, T1100, T1200, <<2>>)}

NextWeek ==
    \/ \E input \in WeekInputs :
            Len(bookings) < MaxCalendarBookings /\ CreateBooking(input)
    \/ \E bookingId \in 1..MaxCalendarBookings :
            CancelBooking(bookingId, EmailAnn, "")
    \/ \E zone \in TimeZones, failing \in FailingRounds, businessSlug \in WeekSlugs,
          serviceId \in WeekServices, startDate \in WeekStartDates :
            GetWeekAvailability(zone, failing, businessSlug, serviceId, startDate)

SpecWeek == Init /\ [][NextWeek]_vars

(***************************************************************************)
(* SpecDayAndWeek: getAvailableSlots and getWeekAvailability calls for a   *)
(* service of the business, an inactive service and one the table does not *)
(* hold, for either business, between createBooking and cancelBooking      *)
(* calls.                                                                  *)
(***************************************************************************)
\* the services asked for: 3 is inactive, 6 is not in the table
DayAndWeekServices == {1, 3, 6}

\* the slugs asked for: the active business and the inactive one
DayAndWeekSlugs == {"salon", "atelier"}

NextDayAndWeek ==
    \/ \E input \in WeekInputs :
            Len(bookings) < MaxUpdateBookings /\ CreateBooking(input)
    \/ \E bookingId \in 1..MaxUpdateBookings :
            CancelBooking(bookingId, EmailAnn, "")
    \/ \E businessId \in DOMAIN business, serviceId \in DayAndWeekServices,
          date \in WeekStartDates :
            GetAvailableSlots(businessId, serviceId, date)
    \/ \E zone \in TimeZones, businessSlug \in DayAndWeekSlugs,
          serviceId \in DayAndWeekServices, startDate \in WeekStartDates :
            GetWeekAvailability(zone, {}, businessSlug, serviceId, startDate)

SpecDayAndWeek == Init /\ [][NextDayAndWeek]_vars

(***************************************************************************)
(* SpecTimes: one call of generateTimeSlots, of timeSlotsOverlap or of     *)
(* timeStringToMinutes, the arguments drawn in the initial state.          *)
(***************************************************************************)
\* a string that is no time: Number makes NaN of its parts
TNoon == <<"n", "o", "o", "n">>

\* the times of day the calls are made with
CallTimes == TimeStrings \cup {TNoon}

\* the durations, in minutes: 30, 45, ... up to MaxDurationQuarters quarters
Durations == {15 * k : k \in 2..MaxDurationQuarters}

\* the buffers, in minutes: 0, 15, ... up to MaxBufferQuarters quarters
Buffers == {15 * k : k \in 0..MaxBufferQuarters}

TimeCalls ==
    { [op |-> "call", function |-> "generateTimeSlots",
       arguments |-> <<startTime, endTime, duration, bufferAfter>>] :
            startTime \in CallTimes, endTime \in CallTimes,
            duration \in Durations, bufferAfter \in Buffers }
    \cup
    { [op |-> "call", function |-> "timeSlotsOverlap",
       arguments |-> <<slot1Start, slot1End, slot2Start, slot2End>>] :
            slot1Start \in CallTimes, slot1End \in CallTimes,
            slot2Start \in CallTimes, slot2End \in CallTimes }
    \cup
    { [op |-> "call", function |-> "timeStringToMinutes",
       arguments |-> <<timeStr>>] : timeStr \in CallTimes }

InitTimes ==
    /\ bookings = <<>>
    /\ business = BusinessTable(<<2>>)
    /\ now = 24 * 60 + 7 * 60 + 30
    /\ lastResult \in TimeCalls
    /\ requests = NoRequests

NextTimes ==
    \/ GenerateTimeSlots
    \/ TimeSlotsOverlap
    \/ TimeStringToMinutes

SpecTimes == InitTimes /\ [][NextTimes]_vars

(***************************************************************************)
(* SpecValidate: validateBookingRequest calls for well-formed and          *)
(* malformed requests, between createBooking and cancelBooking calls.      *)
(***************************************************************************)
\* the services asked for: a staff-required one, a capacity-based one, an
\* inactive one and one the table does not hold
ValidateServices == {1, 2, 3, 6}

ValidateStaff == {NoStaff, 1, 3}

\* yesterday (day 0) and today (day 1)
ValidateDates == {0, 1}

\* 25:00 is no time of day
ValidateStartTimes == {T1000, T2500}

ValidateEndTimes == {T1000, T1100}

\* a party of one and a party no service has room for
ValidatePartySizes == {1, 3}

ValidateInputs ==
    {CreateInput(1, 1, 1, T1000, T1100, <<>>),
     CreateInput(2, NoStaff, 1, T1000, T1100, <<2>>)}

NextValidate ==
    \/ \E input \in ValidateInputs :
            Len(bookings) < MaxCalendarBookings /\ CreateBooking(input)
    \/ \E bookingId \in 1..MaxCalendarBookings :
            CancelBooking(bookingId, EmailAnn, "")
    \/ \E businessId \in CalendarBusinesses, serviceId \in ValidateServices,
          staffMemberId \in ValidateStaff, bookingDate \in ValidateDates,
          startTime \in ValidateStartTimes, endTime \in ValidateEndTimes,
          partySize \in ValidatePartySizes :
            ValidateBookingRequest(businessId, serviceId, staffMemberId, bookingDate,
                                   startTime, endTime, partySize)

SpecValidate == Init /\ [][NextValidate]_vars

(***************************************************************************)
(* SpecUpdate: the three calls one at a time on day 1 10:00-11:00 of the   *)
(* capacity-based service, with the patches a PUT /bookings/:id body may   *)
(* hold, while the days pass.                                              *)
(***************************************************************************)
UpdateInputs == {CreateInput(2, NoStaff, 1, T1000, T1100, <<>>)}

\* patches of the status, of the party size (0 is falsy, 3 exceeds every
\* capacity), of the time together with a field that has nothing to do with
\* it, and of columns the allow-list does not hold
UpdatePatches ==
    { [status |-> status] : status \in {"confirmed", "cancelled"} }
    \cup { [party_size |-> partySize] : partySize \in {0, 3} }
    \cup { [start_time |-> T1100, end_time |-> T1200, customer_phone |-> <<>>],
           [business_id |-> 2, service_id |-> 4, staff_member_id |-> 2],
           [service_id |-> 4, staff_member_id |-> 2, status |-> "confirmed"] }

NextUpdate ==
    \/ \E input \in UpdateInputs :
            Len(bookings) < MaxUpdateBookings /\ CreateBooking(input)
    \/ \E bookingId \in 1..MaxUpdateBookings, updates \in UpdatePatches :
            UpdateBooking(bookingId, updates)
    \/ \E bookingId \in 1..MaxUpdateBookings :
            CancelBooking(bookingId, EmailAnn, "")
    \/ Tick

SpecUpdate == Init /\ [][NextUpdate]_vars

(***************************************************************************)
(* Properties                                                              *)
(***************************************************************************)
ActiveStatuses == {"pending", "confirmed"}

TerminalStatuses == {"cancelled", "completed", "no_show"}

StartOf(row) == timeStringToMinutes(row.start_time)

EndOf(row) == timeStringToMinutes(row.end_time)

\* [start,end) of the two rows share a minute
IntervalsOverlap(a, b) == StartOf(a) < EndOf(b) /\ StartOf(b) < EndOf(a)

ServiceOf(row) == CHOOSE s \in services : s.id = row.service_id

\* the step is a createBooking call that returns success
CreateSucceeds ==
    /\ lastResult'.op = "createBooking"
    /\ lastResult'.success
    /\ Len(bookings') = Len(bookings) + 1

\* the row that step has added
InsertedRow == bookings'[Len(bookings')]

SameIgnoringCase(a, b) == toLowerCase(a) = toLowerCase(b)

\* C1: with the calls running one at a time, the ledger never holds two pending or
\* confirmed bookings of the same staff-required service, staff member and date
\* whose [start,end) intervals overlap.
StaffNonOverlap ==
    \A i, j \in DOMAIN bookings :
        (/\ i < j
         /\ bookings[i].status \in ActiveStatuses
         /\ bookings[j].status \in ActiveStatuses
         /\ bookings[i].service_id = bookings[j].service_id
         /\ ServiceOf(bookings[i]).requires_staff
         /\ bookings[i].staff_member_id = bookings[j].staff_member_id
         /\ bookings[i].booking_date = bookings[j].booking_date)
        => ~IntervalsOverlap(bookings[i], bookings[j])

MinutesOfDay == 0..(24 * MinutesPerHour - 1)

\* the pending and confirmed bookings of a service on a date that cover a minute
Covering(service, date, minute) ==
    {id \in DOMAIN bookings :
        /\ bookings[id].status \in ActiveStatuses
        /\ bookings[id].service_id = service.id
        /\ bookings[id].booking_date = date
        /\ StartOf(bookings[id]) <= minute
        /\ minute < EndOf(bookings[id])}

RECURSIVE PartySum(_)
PartySum(ids) ==
    IF ids = {} THEN 0
    ELSE LET id == CHOOSE x \in ids : TRUE
         IN  bookings[id].party_size + PartySum(ids \ {id})

\* C2: with the calls running one at a time, for every capacity-based service, date
\* and minute of the day, the party sizes of the pending and confirmed bookings
\* that cover the minute sum to at most the capacity of the service.
CapacityRespected ==
    \A service \in services :
        ~service.requires_staff =>
            \A date \in {bookings[id].booking_date : id \in DOMAIN bookings} :
                \A minute \in MinutesOfDay :
                    PartySum(Covering(service, date, minute)) <= service.capacity

\* C3: two createBooking requests of one staff member, date and overlapping time
\* can both validate before either inserts, and then both insert.  Apart from
\* that interleaving no overlap arises: of two overlapping pending rows of one
\* staff member, the request that inserted second validated before the first
\* row was in the ledger.
OverlapOnlyByRace ==
    \A r1, r2 \in 1..NumRequests :
        (/\ requests[r1].pc = "inserted"
         /\ requests[r2].pc = "inserted"
         /\ requests[r1].row < requests[r2].row
         /\ bookings[requests[r1].row].staff_member_id
                = bookings[requests[r2].row].staff_member_id
         /\ bookings[requests[r1].row].booking_date
                = bookings[requests[r2].row].booking_date
         /\ IntervalsOverlap(bookings[requests[r1].row], bookings[requests[r2].row]))
        => requests[r2].seen < requests[r1].row

\* both requests validated against the empty ledger and both inserted: two
\* overlapping pending bookings of one staff member
RaceReached ==
    \E r1, r2 \in 1..NumRequests :
        /\ r1 # r2
        /\ requests[r1].pc = "inserted" /\ requests[r1].seen = 0
        /\ requests[r2].pc = "inserted" /\ requests[r2].seen = 0
        /\ bookings[requests[r1].row].status = "pending"
        /\ bookings[requests[r2].row].status = "pending"
        /\ ServiceOf(bookings[requests[r1].row]).requires_staff
        /\ bookings[requests[r1].row].service_id = bookings[requests[r2].row].service_id
        /\ bookings[requests[r1].row].staff_member_id
                = bookings[requests[r2].row].staff_member_id
        /\ bookings[requests[r1].row].booking_date
                = bookings[requests[r2].row].booking_date
        /\ IntervalsOverlap(bookings[requests[r1].row], bookings[requests[r2].row])

\* C4: a booking whose status is cancelled, completed or no_show keeps that status
\* in every later step.
TerminalStatusesStay ==
    [][\A id \in DOMAIN bookings :
          bookings[id].status \in TerminalStatuses
              => /\ id \in DOMAIN bookings'
                 /\ bookings'[id].status = bookings[id].status]_vars

AllowedStatusChanges ==
    { <<"pending", "confirmed">>, <<"pending", "cancelled">>,
      <<"confirmed", "cancelled">>, <<"confirmed", "completed">>,
      <<"confirmed", "no_show">> }

\* C5: every booking enters the ledger with status pending, and every later change
\* of a status is pending->confirmed, pending->cancelled, confirmed->cancelled,
\* confirmed->completed or confirmed->no_show.
StatusStateMachine ==
    [][/\ \A id \in DOMAIN bookings' \ DOMAIN bookings :
              bookings'[id].status = "pending"
       /\ \A id \in DOMAIN bookings \cap DOMAIN bookings' :
              bookings'[id].status # bookings[id].status
                  => <<bookings[id].status, bookings'[id].status>>
                         \in AllowedStatusChanges]_vars

\* the three reasons createBooking has to refuse a request
BusinessMissing(input) ==
    ~(input.business_id \in DOMAIN business /\ business[input.business_id].is_active)

PhoneMissing(input) ==
    /\ ~BusinessMissing(input)
    /\ business[input.business_id].require_phone
    /\ input.customer_phone = <<>>

ValidatorErrors(input) ==
    validateBookingRequest(input.business_id, input.service_id, input.staff_member_id,
        input.booking_date, input.start_time, input.end_time, PartySizeOf(input), 0)

\* C6: in every ledger the calls reach, a createBooking call that finds the
\* business missing or inactive, or the phone missing where it is required, or at
\* least one validator error, returns success=false with errors and leaves the
\* ledger as it was; a call that changes the ledger appends one row to it, and the
\* validator returned no error for that call.
FailedCreateLeavesLedger ==
    \A input \in CreateInputs :
        LET result == createBooking(input) IN
        /\ (BusinessMissing(input) \/ PhoneMissing(input)
                \/ ValidatorErrors(input) # <<>>)
              => /\ ~result.success
                 /\ result.errors # <<>>
                 /\ result.bookings = bookings
        /\ result.bookings # bookings
              => /\ ValidatorErrors(input) = <<>>
                 /\ Len(result.bookings) = Len(bookings) + 1
                 /\ SubSeq(result.bookings, 1, Len(bookings)) = bookings
                 /\ result.success

\* a createBooking refused by the validator while the ledger holds a booking
CreateRefusedByValidator ==
    /\ lastResult.op = "createBooking"
    /\ ~lastResult.success
    /\ lastResult.errors = <<"Time slot already booked">>
    /\ Len(bookings) = 1

\* the active weekly rules that govern a row on its weekday: the staff member's
\* for a staff-required service, the business's otherwise
GoverningRules(row) ==
    {rule \in availability_rules :
        /\ rule.is_active
        /\ rule.day_of_week = getDay(row.booking_date)
        /\ IF ServiceOf(row).requires_staff
           THEN rule.staff_member_id = row.staff_member_id
           ELSE rule.business_id = row.business_id}

\* C7: the row a successful createBooking inserts lies, from start to end, inside
\* one active weekly rule of its weekday, of the staff member for a staff-required
\* service and of the business otherwise; without such a rule nothing is inserted.
InsideWorkingHours ==
    [][CreateSucceeds =>
          \E rule \in GoverningRules(InsertedRow) :
              /\ timeStringToMinutes(rule.start_time) <= StartOf(InsertedRow)
              /\ EndOf(InsertedRow) <= timeStringToMinutes(rule.end_time)]_vars

\* staff 2 (10:00-12:00) has been booked after a booking of the capacity-based
\* service, which follows the business's hours (09:00-12:00)
StaffAndBusinessHoursUsed ==
    /\ lastResult.op = "createBooking"
    /\ lastResult.success
    /\ Len(bookings) = 2
    /\ ~ServiceOf(bookings[1]).requires_staff
    /\ ServiceOf(bookings[2]).requires_staff
    /\ bookings[2].staff_member_id = 2

\* the closures of the business on a date
BusinessClosures(businessId, date) ==
    {i \in DOMAIN special_availability :
        /\ special_availability[i].business_id = businessId
        /\ special_availability[i].date = date
        /\ ~special_availability[i].is_available}

\* C8: createBooking does not succeed on a date on which the business has a closure
\* without start and end, nor for an interval that overlaps a closure of the
\* business that has a start and an end.
NoBookingOnClosedDate ==
    [][CreateSucceeds =>
          \A i \in BusinessClosures(InsertedRow.business_id, InsertedRow.booking_date) :
              LET closure == special_availability[i] IN
              /\ ~(closure.start_time = <<>> /\ closure.end_time = <<>>)
              /\ (closure.start_time # <<>> /\ closure.end_time # <<>>)
                    => ~IntervalsOverlap(InsertedRow, closure)]_vars

\* a createBooking refused for a partial closure, after one that was accepted on
\* the date of that closure
CreateRefusedByClosure ==
    /\ lastResult.op = "createBooking"
    /\ lastResult.errors = <<"Special closure during requested time">>
    /\ Len(bookings) = 1
    /\ BusinessClosures(bookings[1].business_id, bookings[1].booking_date) # {}

\* C9: cancelBooking with an email that differs from the booking's customer_email
\* when both are compared without regard to case fails and leaves the ledger as
\* it was; an email that differs in case only is not refused as a mismatch.
WrongEmailChangesNothing ==
    [][\A bookingId \in DOMAIN bookings, customerEmail \in CancelEmails :
          (lastResult'.op = "cancelBooking"
               /\ CancelBooking(bookingId, customerEmail, "")) =>
              IF SameIgnoringCase(customerEmail, bookings[bookingId].customer_email)
              THEN lastResult'.errors # <<"Email does not match booking">>
              ELSE ~lastResult'.success /\ bookings' = bookings]_vars

\* a cancelBooking refused for its email while the booking is pending
CancelRefusedForEmail ==
    /\ lastResult.op = "cancelBooking"
    /\ lastResult.errors = <<"Email does not match booking">>
    /\ \E id \in DOMAIN bookings : bookings[id].status = "pending"

\* the cancellation window of a booking's business in hours: the configured value,
\* 24 where none is configured
ConfiguredCancellationHours(row) ==
    IF business[row.business_id].cancellation_hours = <<>>
    THEN 24
    ELSE business[row.business_id].cancellation_hours[1]

MinutesUntil(row) == row.booking_date * 24 * 60 + StartOf(row) - now

\* C10: cancelBooking of a booking that is not cancelled, with a matching email,
\* is refused exactly when the time until the booking's date and start time is
\* less than the configured cancellation_hours (0 included, 24 where none is
\* configured); otherwise the booking becomes cancelled.
CancellationWindow ==
    [][\A bookingId \in DOMAIN bookings, customerEmail \in LifecycleEmails :
          (/\ lastResult'.op = "cancelBooking"
           /\ CancelBooking(bookingId, customerEmail, "")
           /\ bookings[bookingId].status # "cancelled"
           /\ SameIgnoringCase(customerEmail, bookings[bookingId].customer_email))
          => IF MinutesUntil(bookings[bookingId])
                    < ConfiguredCancellationHours(bookings[bookingId]) * 60
             THEN ~lastResult'.success /\ bookings' = bookings
             ELSE lastResult'.success /\ bookings'[bookingId].status = "cancelled"]_vars

\* C11: cancelBooking of a booking whose status is cancelled, with an email that
\* matches, fails with "Booking is already cancelled" and leaves the ledger as it
\* was, cancelled_at and cancellation_reason of the booking included; a second
\* cancelBooking therefore adds nothing to the effect of the first.
CancelTwiceIsCancelOnce ==
    [][\A bookingId \in DOMAIN bookings, customerEmail \in CancelEmails :
          (/\ lastResult'.op = "cancelBooking"
           /\ CancelBooking(bookingId, customerEmail, "")
           /\ bookings[bookingId].status = "cancelled"
           /\ SameIgnoringCase(customerEmail, bookings[bookingId].customer_email))
          => /\ ~lastResult'.success
             /\ lastResult'.errors = <<"Booking is already cancelled">>
             /\ bookings' = bookings]_vars

\* a second cancelBooking of a booking was refused; the booking still carries the
\* stamp and the reason of the first
CancelledTwice ==
    /\ lastResult.op = "cancelBooking"
    /\ lastResult.errors = <<"Booking is already cancelled">>
    /\ \E id \in DOMAIN bookings :
          /\ bookings[id].status = "cancelled"
          /\ bookings[id].cancelled_at # <<>>
          /\ bookings[id].cancellation_reason = "Customer cancellation"

\* the slots of a DayAvailability
SlotsOf(day) == {day.time_slots[i] : i \in 1..Len(day.time_slots)}

\* the pending and confirmed bookings, other than booking id, that lie on the
\* slot: same business, service and date, same staff member where the service
\* needs one, and an interval that overlaps the slot's
ActiveOnSlot(row, slot, id) ==
    {other \in DOMAIN bookings \ {id} :
        /\ bookings[other].status \in ActiveStatuses
        /\ bookings[other].business_id = row.business_id
        /\ bookings[other].service_id = row.service_id
        /\ bookings[other].booking_date = row.booking_date
        /\ ServiceOf(row).requires_staff
              => bookings[other].staff_member_id = slot.staff_member_id
        /\ IntervalsOverlap(bookings[other], slot)}

\* a request for the slot, made for the service and the day of a booking
RequestFor(row, slot) ==
    CreateInput(row.service_id, slot.staff_member_id, row.booking_date,
                slot.start_time, slot.end_time, <<>>)

\* every slot of the day of booking id that only this booking lies on is
\* reported available and a request for it is accepted
SlotsOfBookingAreFree(id) ==
    \A slot \in SlotsOf(getAvailableSlots(bookings[id].business_id,
                            bookings[id].service_id, bookings[id].booking_date)) :
        (/\ IntervalsOverlap(bookings[id], slot)
         /\ ActiveOnSlot(bookings[id], slot, id) = {})
        => /\ slot.available
           /\ createBooking(RequestFor(bookings[id], slot)).success

\* C12: a booking whose status is cancelled, completed or no_show blocks nothing:
\* in every state, and so right after a cancelBooking call that succeeded,
\* getAvailableSlots reports every slot that no pending or confirmed booking
\* overlaps besides such a booking with available = TRUE, and createBooking for
\* that slot is accepted.
CancelledBookingFreesSlot ==
    \A id \in DOMAIN bookings :
        bookings[id].status \in TerminalStatuses => SlotsOfBookingAreFree(id)

\* getAvailableSlots answered after a booking of staff 1 was cancelled: the slot
\* of that booking is in the answer with available = TRUE, while a no_show or
\* completed booking of staff 1 lies on it as well
FreedSlotReported ==
    /\ lastResult.op = "getAvailableSlots"
    /\ lastResult.query = <<1, 1, 1>>
    /\ \E id, other \in DOMAIN bookings :
          /\ bookings[id].status = "cancelled"
          /\ bookings[id].staff_member_id = 1
          /\ bookings[other].status \in {"completed", "no_show"}
          /\ bookings[other].staff_member_id = 1
          /\ \E i \in 1..Len(lastResult.time_slots) :
                /\ lastResult.time_slots[i].staff_member_id = 1
                /\ lastResult.time_slots[i].start_time = bookings[id].start_time
                /\ lastResult.time_slots[i].available

\* the pending and confirmed bookings of the service on the date whose interval
\* overlaps the slot's
ActiveOverlapping(businessId, serviceId, date, slot) ==
    {id \in DOMAIN bookings :
        /\ bookings[id].status \in ActiveStatuses
        /\ bookings[id].business_id = businessId
        /\ bookings[id].service_id = serviceId
        /\ bookings[id].booking_date = date
        /\ IntervalsOverlap(bookings[id], slot)}

\* the active capacity-based services
CapacityBased == {service \in services : service.is_active /\ ~service.requires_staff}

\* C13: for a capacity-based service, getAvailableSlots reports a slot with
\* available = FALSE whenever the party sizes of the pending and confirmed
\* bookings that overlap the slot sum to the capacity of the service or more.
FullSlotsUnavailable ==
    \A service \in CapacityBased, date \in CalendarDates :
        \A slot \in SlotsOf(getAvailableSlots(service.business_id, service.id, date)) :
            PartySum(ActiveOverlapping(service.business_id, service.id, date, slot))
                    >= service.capacity
                => ~slot.available

\* is the slot reported unavailable exactly when one of the bookings has a party
\* size of at least minimum?
UnavailableIffOneOf(slot, ids, minimum) ==
    ~slot.available <=> \E id \in ids : bookings[id].party_size >= minimum

\* C14: for a capacity-based service, getAvailableSlots reports a slot with
\* available = FALSE exactly when one pending or confirmed booking that overlaps
\* the slot has a party_size of at least the capacity of the service; with
\* capacity 1, exactly when a pending or confirmed booking with a party_size of
\* at least 1 overlaps the slot.  Every other slot is reported available.
UnavailableBySingleBooking ==
    \A service \in CapacityBased, date \in CalendarDates :
        \A slot \in SlotsOf(getAvailableSlots(service.business_id, service.id, date)) :
            UnavailableIffOneOf(slot,
                ActiveOverlapping(service.business_id, service.id, date, slot),
                service.capacity)

\* C14 as stated: as above, and with capacity 1 a slot is unavailable exactly
\* when some pending or confirmed booking overlaps it, whatever its party_size.
UnavailableByAnyBookingAtCapacityOne ==
    \A service \in CapacityBased, date \in CalendarDates :
        \A slot \in SlotsOf(getAvailableSlots(service.business_id, service.id, date)) :
            /\ UnavailableIffOneOf(slot,
                   ActiveOverlapping(service.business_id, service.id, date, slot),
                   service.capacity)
            /\ service.capacity = 1 =>
                  (~slot.available <=>
                      ActiveOverlapping(service.business_id, service.id, date, slot) # {})

\* getAvailableSlots answered for the service of capacity 2 while a pending
\* booking of two guests lies on 10:00-11:00: that slot is reported unavailable,
\* the 09:00-10:00 slot available
SlotTakenByFullParty ==
    /\ lastResult.op = "getAvailableSlots"
    /\ lastResult.query = <<1, 2, 1>>
    /\ \E id \in DOMAIN bookings :
          /\ bookings[id].service_id = 2
          /\ bookings[id].status = "pending"
          /\ bookings[id].party_size = 2
    /\ \E i, j \in 1..Len(lastResult.time_slots) :
          /\ lastResult.time_slots[i].start_time = T1000
          /\ ~lastResult.time_slots[i].available
          /\ lastResult.time_slots[j].start_time = T0900
          /\ lastResult.time_slots[j].available

\* the active services that need a staff member
StaffRequired == {service \in services : service.is_active /\ service.requires_staff}

\* C15: for a staff-required service, getAvailableSlots reports a slot with
\* available = FALSE exactly when a pending or confirmed booking of that service
\* on that date overlaps the slot and has the staff member of the slot; a booking
\* of another staff member leaves the slot available.
UnavailableBySameStaff ==
    \A service \in StaffRequired, date \in CalendarDates :
        \A slot \in SlotsOf(getAvailableSlots(service.business_id, service.id, date)) :
            ~slot.available <=>
                \E id \in ActiveOverlapping(service.business_id, service.id, date, slot) :
                    bookings[id].staff_member_id = slot.staff_member_id

\* getAvailableSlots answered for day 1 while staff 1 has a pending booking at
\* 10:00-11:00 and staff 2 has none: the 10:00 slot of staff 1 is reported
\* unavailable, the 10:00 slot of staff 2 available
OtherStaffStillFree ==
    /\ lastResult.op = "getAvailableSlots"
    /\ lastResult.query = <<1, 1, 1>>
    /\ \E id \in DOMAIN bookings :
          bookings[id].staff_member_id = 1 /\ bookings[id].status = "pending"
    /\ \A id \in DOMAIN bookings : bookings[id].staff_member_id = 1
    /\ \E i, j \in 1..Len(lastResult.time_slots) :
          /\ lastResult.time_slots[i].start_time = T1000
          /\ lastResult.time_slots[i].staff_member_id = 1
          /\ ~lastResult.time_slots[i].available
          /\ lastResult.time_slots[j].start_time = T1000
          /\ lastResult.time_slots[j].staff_member_id = 2
          /\ lastResult.time_slots[j].available

\* the rows of special_availability
SpecialAvailabilityRows == {special_availability[i] : i \in 1..Len(special_availability)}

\* the closures of the business on the date that carry no start and no end
WholeDayClosures(businessId, date) ==
    {sp \in SpecialAvailabilityRows :
        /\ sp.business_id = businessId
        /\ sp.date = date
        /\ ~sp.is_available
        /\ sp.start_time = <<>>
        /\ sp.end_time = <<>>}

\* C16: when the business has a date override with is_available = FALSE and no
\* start and end on a date, getAvailableSlots for a capacity-based service of
\* the business returns no slot for that date, whatever weekly rules and
\* bookings exist.
WholeDayClosureEmptiesDay ==
    \A service \in CapacityBased, date \in CalendarDates :
        WholeDayClosures(service.business_id, date) # {}
            => getAvailableSlots(service.business_id, service.id, date).time_slots = <<>>

\* getAvailableSlots answered for the capacity-based service 2 on day 2, a
\* Wednesday the weekly rules open and a date override closes: no slot
ClosedDayAnswered ==
    /\ lastResult.op = "getAvailableSlots"
    /\ lastResult.query = <<1, 2, 2>>
    /\ lastResult.success
    /\ lastResult.time_slots = <<>>
    /\ WholeDayClosures(1, 2) # {}
    /\ \E r \in availability_rules :
          r.business_id = 1 /\ r.day_of_week = lastResult.day_of_week /\ r.is_active

\* the closures of the business on the date
Closures(businessId, date) ==
    {sp \in SpecialAvailabilityRows :
        sp.business_id = businessId /\ sp.date = date /\ ~sp.is_available}

\* the active weekly rules of the business for the weekday of the date
WeeklyRulesOfBusiness(businessId, date) ==
    {r \in availability_rules :
        r.business_id = businessId /\ r.day_of_week = getDay(date) /\ r.is_active}

\* what is left of the open interval from..to, in minutes, once closedFrom..closedTo
\* is removed from it
Pieces(from, to, closedFrom, closedTo) ==
    IF closedTo <= from \/ to <= closedFrom THEN {<<from, to>>}
    ELSE (IF from < closedFrom THEN {<<from, closedFrom>>} ELSE {})
         \cup (IF closedTo < to THEN {<<closedTo, to>>} ELSE {})

\* the intervals of the slots of the given duration and buffer that fit into from..to
SlotIntervals(from, to, duration, bufferAfter) ==
    {<<from + k * (duration + bufferAfter), from + k * (duration + bufferAfter) + duration>> :
        k \in {n \in 0..((to - from) \div duration) :
                  from + n * (duration + bufferAfter) + duration <= to}}

\* the intervals of the slots of a DayAvailability, in minutes
IntervalsOf(day) == {<<StartOf(slot), EndOf(slot)>> : slot \in SlotsOf(day)}

\* C17: on a date whose only closure of the business has a start and an end,
\* the slots getAvailableSlots returns for a capacity-based service are exactly
\* the slots generated, with the duration and buffer of the service, over each
\* piece of every weekly open interval that is left once the closed interval is
\* removed from it.
PartialClosureSplitsDay ==
    \A service \in CapacityBased, date \in CalendarDates :
        \A closure \in Closures(service.business_id, date) :
            (/\ Closures(service.business_id, date) = {closure}
             /\ closure.start_time # <<>>
             /\ closure.end_time # <<>>)
            => IntervalsOf(getAvailableSlots(service.business_id, service.id, date))
               = UNION {SlotIntervals(piece[1], piece[2],
                            service.duration_minutes, service.buffer_after_minutes) :
                        piece \in UNION {Pieces(StartOf(rule), EndOf(rule),
                                                StartOf(closure), EndOf(closure)) :
                                         rule \in WeeklyRulesOfBusiness(service.business_id, date)}}

\* the closures on the date that belong to the staff member
StaffClosures(staffId, date) ==
    {sp \in SpecialAvailabilityRows :
        sp.staff_member_id = staffId /\ sp.date = date /\ ~sp.is_available}

\* the active staff members that can perform the service
CapableStaff(serviceId) ==
    {sm.id : sm \in {m \in staff_members :
        /\ m.is_active
        /\ \E ss \in staff_services :
              ss.staff_member_id = m.id /\ ss.service_id = serviceId}}

\* the intervals, in minutes, of the slots the active weekly rules of the staff
\* member generate for the service on the date
WeeklySlotsOfStaff(service, staffId, date) ==
    UNION {SlotIntervals(StartOf(rule), EndOf(rule),
               service.duration_minutes, service.buffer_after_minutes) :
           rule \in {r \in availability_rules :
                        /\ r.staff_member_id = staffId
                        /\ r.day_of_week = getDay(date)
                        /\ r.is_active}}

\* the intervals of the slots of a DayAvailability that carry the staff member
IntervalsOfStaff(day, staffId) ==
    {<<StartOf(slot), EndOf(slot)>> :
        slot \in {x \in SlotsOf(day) : x.staff_member_id = staffId}}

\* C18: for a staff-required service, on a date that is closed (for the whole
\* day or for part of it) for one staff member only, getAvailableSlots still
\* returns every slot the weekly rules generate for the other staff members
\* that can perform the service.
StaffClosureLeavesOthers ==
    \A service \in StaffRequired, date \in CalendarDates :
        \A staffId \in CapableStaff(service.id) :
            (/\ StaffClosures(staffId, date) # {}
             /\ Closures(service.business_id, date) = {}
             /\ \A other \in CapableStaff(service.id) \ {staffId} :
                    StaffClosures(other, date) = {})
            => \A other \in CapableStaff(service.id) \ {staffId} :
                  IntervalsOfStaff(
                      getAvailableSlots(service.business_id, service.id, date), other)
                  = WeeklySlotsOfStaff(service, other, date)

\* no row of special_availability closes anything on the date
NoClosureOn(date) ==
    \A sp \in SpecialAvailabilityRows : sp.date = date => sp.is_available

\* the intervals, in minutes, of the slots the active weekly rules of the
\* business generate for the service on the date
WeeklySlotsOfBusiness(service, date) ==
    UNION {SlotIntervals(StartOf(rule), EndOf(rule),
               service.duration_minutes, service.buffer_after_minutes) :
           rule \in WeeklyRulesOfBusiness(service.business_id, date)}

\* isTimeSlotAvailable accepts a request of one guest for every slot of the day
\* that no pending or confirmed booking overlaps
FreeSlotsAccepted(service, date, day) ==
    \A slot \in SlotsOf(day) :
        ActiveOverlapping(service.business_id, service.id, date, slot) = {}
        => isTimeSlotAvailable(service.business_id, service.id, slot.staff_member_id,
               date, slot.start_time, slot.end_time, 1, 0).available

\* C19: on a date without closures, the slots getAvailableSlots returns are the
\* slots generated from every active weekly rule of the scope (the business, or
\* each active staff member that can perform the service) for the weekday of the
\* date, those of several rules side by side; inactive rules and rules of other
\* weekdays add nothing; and isTimeSlotAvailable accepts each of these slots
\* when no booking is in the way.
WeeklyRulesAreUnited ==
    \A service \in CapacityBased \cup StaffRequired, date \in CalendarDates :
        NoClosureOn(date) =>
            /\ IF service.requires_staff
               THEN /\ \A slot \in SlotsOf(getAvailableSlots(service.business_id,
                                               service.id, date)) :
                          slot.staff_member_id \in CapableStaff(service.id)
                    /\ \A staffId \in CapableStaff(service.id) :
                          IntervalsOfStaff(getAvailableSlots(service.business_id,
                                               service.id, date), staffId)
                          = WeeklySlotsOfStaff(service, staffId, date)
               ELSE IntervalsOf(getAvailableSlots(service.business_id, service.id, date))
                    = WeeklySlotsOfBusiness(service, date)
            /\ FreeSlotsAccepted(service, date,
                   getAvailableSlots(service.business_id, service.id, date))

\* getAvailableSlots answered for service 2 on day 5, the Saturday of the split
\* shifts 09:00-10:00 and 11:00-12:00 (the rule for 10:00-11:00 is inactive): a
\* slot for either shift and none between them, while a booking that
\* createBooking accepted lies in the second shift
SplitShiftsAnswered ==
    /\ lastResult.op = "getAvailableSlots"
    /\ lastResult.query = <<1, 2, 5>>
    /\ Len(lastResult.time_slots) = 2
    /\ lastResult.time_slots[1].start_time = T0900
    /\ lastResult.time_slots[2].start_time = T1100
    /\ \E id \in DOMAIN bookings :
          /\ bookings[id].booking_date = 5
          /\ bookings[id].service_id = 2
          /\ bookings[id].start_time = T1100

\* does the staff member have an active weekly rule for the weekday of the date?
StaffHasRule(staffId, date) ==
    \E r \in availability_rules :
        r.staff_member_id = staffId /\ r.day_of_week = getDay(date) /\ r.is_active

\* no active weekly rule opens the date for the service: none of the business
\* for a capacity-based service, none of any active staff member that can
\* perform a staff-required one (there may be no such staff member)
NoRuleOpens(service, date) ==
    IF service.requires_staff
    THEN \A staffId \in CapableStaff(service.id) : ~StaffHasRule(staffId, date)
    ELSE WeeklyRulesOfBusiness(service.business_id, date) = {}

\* C20: when no active weekly rule opens the date for an active service,
\* getAvailableSlots does not throw and returns an empty slot list.
NoRuleMeansClosed ==
    \A service \in CapacityBased \cup StaffRequired, date \in CalendarDates :
        NoRuleOpens(service, date) =>
            /\ ~getAvailableSlots(service.business_id, service.id, date).threw
            /\ getAvailableSlots(service.business_id, service.id, date).time_slots = <<>>

\* getAvailableSlots answered with an empty slot list, either for service 5,
\* which no active staff member can perform, on a day the pending booking of
\* another service lies on, or for a Thursday, for which the business has an
\* inactive rule only and the staff members none
NoRuleAnswered ==
    /\ lastResult.op = "getAvailableSlots"
    /\ lastResult.success
    /\ lastResult.time_slots = <<>>
    /\ \/ /\ lastResult.query[2] = 5
          /\ CapableStaff(5) = {}
          /\ \E id \in DOMAIN bookings : bookings[id].booking_date = lastResult.query[3]
       \/ /\ lastResult.query \in {<<1, 1, 3>>, <<1, 2, 3>>}
          /\ lastResult.day_of_week = 4
          /\ bookings # <<>>

\* the active services
ActiveServices == CapacityBased \cup StaffRequired

\* is the slot list in non-decreasing order of start time?
InStartOrder(time_slots) ==
    \A i, j \in 1..Len(time_slots) :
        i < j => StartOf(time_slots[i]) <= StartOf(time_slots[j])

\* does no (start_time, end_time, staff_member_id) occur twice in the slot list?
DuplicateFree(time_slots) ==
    \A i, j \in 1..Len(time_slots) :
        (/\ time_slots[i].start_time = time_slots[j].start_time
         /\ time_slots[i].end_time = time_slots[j].end_time
         /\ time_slots[i].staff_member_id = time_slots[j].staff_member_id)
        => i = j

\* C21: the time_slots list getAvailableSlots returns is in non-decreasing order
\* of start time and holds no two entries with the same start_time, end_time and
\* staff_member_id, also on a day whose weekly rules generate a slot twice.
SlotsOrderedAndUnique ==
    \A service \in ActiveServices, date \in CalendarDates :
        /\ InStartOrder(getAvailableSlots(service.business_id, service.id, date).time_slots)
        /\ DuplicateFree(getAvailableSlots(service.business_id, service.id, date).time_slots)

\* getAvailableSlots answered for a Sunday (day 6), whose overlapping rules
\* generate more slots than the answer holds, and generate them out of order
OverlappingRulesAnswered ==
    /\ lastResult.op = "getAvailableSlots"
    /\ lastResult.success
    /\ lastResult.query[3] = 6
    /\ \E service \in ActiveServices :
          /\ service.id = lastResult.query[2]
          /\ Len(generatedSlots(service, 1, service.id, getDay(6))) > Len(lastResult.time_slots)
          /\ ~InStartOrder(generatedSlots(service, 1, service.id, getDay(6)))

\* the calls getWeekAvailability answered with a week
WeekAnswered == lastResult.op = "getWeekAvailability" /\ lastResult.success

\* the week of the last call had none of its queries failed
UnfailedWeek ==
    getWeekAvailability(lastResult.zone, {}, lastResult.query[1], lastResult.query[2],
                        lastResult.query[3]).days

\* C22: for a known active business slug getWeekAvailability returns exactly 7
\* day records, for the 7 consecutive dates from startDate on, in date order; the
\* record of a day whose getAvailableSlots call failed has an empty slot list, and
\* the records of the other days are what they are when no call fails.
WeekOfSevenDays ==
    WeekAnswered =>
        /\ Len(lastResult.days) = 7
        /\ \A i \in 1..7 :
              /\ lastResult.days[i].date = lastResult.query[3] + i - 1
              /\ (i - 1) \in lastResult.failing => lastResult.days[i].time_slots = <<>>
              /\ (i - 1) \notin lastResult.failing => lastResult.days[i] = UnfailedWeek[i]

\* asking again, in this state, what the last getAvailableSlots call was asked
\* gives the answer that call gave
SameAnswerAgain ==
    lastResult = Answered(lastResult.query,
                          getAvailableSlots(lastResult.query[1], lastResult.query[2],
                                            lastResult.query[3]))

NoOtherConflict(service, date, slot, partySize) ==
    service.requires_staff
    \/ PartySum(ActiveOverlapping(service.business_id, service.id, date, slot)) + partySize
            <= service.capacity

\* validateBookingRequest finds a request for the slot valid, with every party
\* size from 1 to the capacity that has room on the slot
SlotValidates(service, date, slot) ==
    \A partySize \in 1..service.capacity :
        NoOtherConflict(service, date, slot, partySize)
        => validateBookingRequest(service.business_id, service.id, slot.staff_member_id,
               date, slot.start_time, slot.end_time, partySize, 0) = <<>>

\* C24: every slot getAvailableSlots returns with available = TRUE for a date
\* that is not in the past validates with validateBookingRequest as a request
\* for the same business, service and date, with the slot's staff member and a
\* party size between 1 and the capacity of the service, when no other booking
\* conflicts with the request.
AvailableSlotsValidate ==
    \A service \in ActiveServices, date \in CalendarDates :
        date >= Today =>
            \A slot \in SlotsOf(getAvailableSlots(service.business_id, service.id, date)) :
                slot.available => SlotValidates(service, date, slot)

\* getAvailableSlots answered for the Saturday (day 5) with a slot of a service
\* of capacity 2 that a pending booking of one guest lies on: the slot is
\* reported available and a request of one more guest validates
SharedSlotValidates ==
    /\ lastResult.op = "getAvailableSlots"
    /\ lastResult.query = <<1, 2, 5>>
    /\ \E slot \in SlotsOf(lastResult) :
          /\ slot.available
          /\ ActiveOverlapping(1, 2, 5, slot) # {}
          /\ validateBookingRequest(1, 2, slot.staff_member_id, 5, slot.start_time,
                                    slot.end_time, 1, 0) = <<>>

\* the time of argument i of the last call, in minutes
ArgumentMinutes(i) == timeStringToMinutes(lastResult.arguments[i])

\* the arguments of the last call that are times are times of day in minutes
TimesAreNumbers(indices) == \A i \in indices : ArgumentMinutes(i) # NaN

\* the slots are `duration` long, lie in [from, to], the first at `from`, each
\* `step` minutes after the one before, and all are available
SlotsInShape(time_slots, from, to, duration, step) ==
    /\ time_slots # <<>> => StartOf(time_slots[1]) = from
    /\ \A i \in 1..Len(time_slots) :
          /\ EndOf(time_slots[i]) = StartOf(time_slots[i]) + duration
          /\ from <= StartOf(time_slots[i])
          /\ EndOf(time_slots[i]) <= to
          /\ time_slots[i].available
          /\ i > 1 => StartOf(time_slots[i]) = StartOf(time_slots[i - 1]) + step

\* C25: for a window [s, e], a duration d > 0 and a buffer b >= 0,
\* generateTimeSlots returns slots of which the first starts at s, every slot
\* ends d minutes after its start, starts at s or later and ends at e or
\* earlier, and starts d + b minutes after the slot before it; every slot is
\* returned with available = TRUE.
SlotsFillWindow ==
    (lastResult.op = "generateTimeSlots" /\ TimesAreNumbers({1, 2})) =>
        SlotsInShape(lastResult.time_slots, ArgumentMinutes(1), ArgumentMinutes(2),
                     lastResult.arguments[3],
                     lastResult.arguments[3] + lastResult.arguments[4])

\* generateTimeSlots returned three slots or more with a buffer between them
BufferedSlotsGenerated ==
    /\ lastResult.op = "generateTimeSlots"
    /\ lastResult.arguments[4] > 0
    /\ Len(lastResult.time_slots) >= 3

\* the last call is generateTimeSlots(s, e, d, b) with valid times s < e
WindowGenerated ==
    /\ lastResult.op = "generateTimeSlots"
    /\ MatchesTimeFormat(lastResult.arguments[1])
    /\ MatchesTimeFormat(lastResult.arguments[2])
    /\ ArgumentMinutes(1) < ArgumentMinutes(2)

\* the number of slots of `duration` minutes, `step` minutes apart, that end
\* within `length` minutes
SlotsThatFit(length, duration, step) ==
    IF length < duration THEN 0 ELSE (length - duration) \div step + 1

\* C26, as the code has it: for valid times s < e, d > 0 and b >= 0,
\* generateTimeSlots(s, e, d, b) returns no slot when e - s < d and
\* floor((e - s - d) / (d + b)) + 1 slots otherwise: the last slot needs no room
\* for its buffer.
SlotCountIsSlotsThatFit ==
    WindowGenerated =>
        Len(lastResult.time_slots)
            = SlotsThatFit(ArgumentMinutes(2) - ArgumentMinutes(1), lastResult.arguments[3],
                           lastResult.arguments[3] + lastResult.arguments[4])

\* C26, as stated: for valid times s < e, d > 0 and b >= 0,
\* generateTimeSlots(s, e, d, b) returns floor((e - s) / (d + b)) slots, and no
\* slot when e - s < d.
SlotCountIsQuotient ==
    WindowGenerated =>
        /\ Len(lastResult.time_slots)
              = (ArgumentMinutes(2) - ArgumentMinutes(1))
                    \div (lastResult.arguments[3] + lastResult.arguments[4])
        /\ ArgumentMinutes(2) - ArgumentMinutes(1) < lastResult.arguments[3]
              => lastResult.time_slots = <<>>

\* generateTimeSlots answered, with a buffer, for a window that has room for
\* its last slot and not for the buffer after it
LastSlotWithoutBuffer ==
    /\ WindowGenerated
    /\ lastResult.arguments[4] > 0
    /\ Len(lastResult.time_slots) >= 2
    /\ EndOf(lastResult.time_slots[Len(lastResult.time_slots)]) + lastResult.arguments[4]
          > ArgumentMinutes(2)

\* C27: timeSlotsOverlap(aStart, aEnd, bStart, bEnd) is true exactly when
\* aStart < bEnd and bStart < aEnd, in minutes since midnight; two intervals
\* that touch at an endpoint (aEnd = bStart or bEnd = aStart) do not overlap.
OverlapIsHalfOpen ==
    (lastResult.op = "timeSlotsOverlap" /\ TimesAreNumbers(1..4)) =>
        /\ lastResult.overlap
              <=> (ArgumentMinutes(1) < ArgumentMinutes(4)
                   /\ ArgumentMinutes(3) < ArgumentMinutes(2))
        /\ (ArgumentMinutes(2) = ArgumentMinutes(3) \/ ArgumentMinutes(4) = ArgumentMinutes(1))
              => ~lastResult.overlap

\* timeSlotsOverlap answered for two proper intervals of which the second
\* starts where the first ends
TouchingIntervalsCompared ==
    /\ lastResult.op = "timeSlotsOverlap"
    /\ TimesAreNumbers(1..4)
    /\ ArgumentMinutes(1) < ArgumentMinutes(2)
    /\ ArgumentMinutes(2) = ArgumentMinutes(3)
    /\ ArgumentMinutes(3) < ArgumentMinutes(4)
    /\ ~lastResult.overlap

\* C28: timeSlotsOverlap(a, b, c, d) equals timeSlotsOverlap(c, d, a, b) for all
\* times a, b, c, d, and timeSlotsOverlap(a, b, a, b) is true for every a < b.
OverlapIsSymmetric ==
    lastResult.op = "timeSlotsOverlap" =>
        /\ lastResult.overlap
              = timeSlotsOverlap(lastResult.arguments[3], lastResult.arguments[4],
                                 lastResult.arguments[1], lastResult.arguments[2])
        /\ Lt(ArgumentMinutes(1), ArgumentMinutes(2))
              => timeSlotsOverlap(lastResult.arguments[1], lastResult.arguments[2],
                                  lastResult.arguments[1], lastResult.arguments[2])

\* timeSlotsOverlap answered true for two proper intervals of which the second
\* starts inside the first and ends after it
StaggeredIntervalsCompared ==
    /\ lastResult.op = "timeSlotsOverlap"
    /\ TimesAreNumbers(1..4)
    /\ ArgumentMinutes(1) < ArgumentMinutes(3)
    /\ ArgumentMinutes(3) < ArgumentMinutes(2)
    /\ ArgumentMinutes(2) < ArgumentMinutes(4)
    /\ lastResult.overlap

\* the last call is validateBookingRequest, and its service lookup found a row / no row
ValidatedWithService ==
    /\ lastResult.op = "validateBookingRequest"
    /\ getServiceDetails(lastResult.request[2], lastResult.request[1]) # {}

ValidatedWithoutService ==
    /\ lastResult.op = "validateBookingRequest"
    /\ getServiceDetails(lastResult.request[2], lastResult.request[1]) = {}

\* C29: when the service does not exist, is inactive or belongs to another
\* business, validateBookingRequest returns valid = FALSE and an error list that
\* holds the 'service not found' error and nothing else, whatever the other
\* arguments are (malformed times and a past date included).
ServiceErrorStandsAlone ==
    ValidatedWithoutService =>
        /\ ~lastResult.success
        /\ lastResult.errors = <<"Service not found or inactive">>

\* is the error in the list?
Reports(errors, error) == \E i \in 1..Len(errors) : errors[i] = error

\* the checks validateBookingRequest makes before it looks at the availability
\* that the request of the last call fails, each as the error it is reported with
EarlyFailures ==
    (IF ~MatchesTimeFormat(lastResult.request[5]) \/ ~MatchesTimeFormat(lastResult.request[6])
     THEN {"Invalid time format. Use HH:MM"} ELSE {})
    \cup
    (IF Le(timeStringToMinutes(lastResult.request[6]), timeStringToMinutes(lastResult.request[5]))
     THEN {"End time must be after start time"} ELSE {})
    \cup
    (IF lastResult.request[4] < Today THEN {"Cannot book in the past"} ELSE {})
    \cup
    (IF \E service \in StaffRequired :
            service.id = lastResult.request[2] /\ lastResult.request[3] = NoStaff
     THEN {"Staff member is required for this service"} ELSE {})
    \cup
    (IF \E service \in StaffRequired :
            /\ service.id = lastResult.request[2]
            /\ lastResult.request[3] # NoStaff
            /\ ~canStaffPerformService(lastResult.request[3], lastResult.request[2])
     THEN {"Selected staff member cannot perform this service"} ELSE {})

\* what isTimeSlotAvailable says of the request of the last call
AvailabilityOfRequest ==
    isTimeSlotAvailable(lastResult.request[1], lastResult.request[2], lastResult.request[3],
                        lastResult.request[4], lastResult.request[5], lastResult.request[6],
                        lastResult.request[7], 0)

\* C30: when the service exists, validateBookingRequest reports every check the
\* request fails in its one error list: the early checks (time format, end
\* after start, past date, staff required and capable) and the availability
\* check (working hours, closure, conflicting booking, party size) side by side.
EveryFailureReported ==
    ValidatedWithService =>
        /\ \A error \in EarlyFailures : Reports(lastResult.errors, error)
        /\ ~AvailabilityOfRequest.available
              => Reports(lastResult.errors, AvailabilityOfRequest.reason)

\* the staff ids a request may carry: none, the three staff members, an unknown one
RequestedStaff == 0..4

\* the staff member is active and the service is one of theirs
CapableAndActive(staffMemberId, serviceId) ==
    /\ [staff_member_id |-> staffMemberId, service_id |-> serviceId] \in staff_services
    /\ \E staff \in staff_members : staff.id = staffMemberId /\ staff.is_active

\* C31: for a service that requires staff, validateBookingRequest returns
\* valid = FALSE when the request names no staff member, or one who is inactive
\* or cannot perform the service; so every booking of such a service in the
\* ledger has an active staff member who can perform it.
StaffRequirementEnforced ==
    /\ \A service \in StaffRequired, staffMemberId \in RequestedStaff :
          ~CapableAndActive(staffMemberId, service.id)
          => validateBookingRequest(service.business_id, service.id, staffMemberId,
                                    1, T1000, T1100, 1, 0) # <<>>
    /\ \A id \in DOMAIN bookings :
          ServiceOf(bookings[id]).requires_staff
          => CapableAndActive(bookings[id].staff_member_id, bookings[id].service_id)

\* createBooking refused a request for the inactive staff member while the
\* ledger holds a booking of the staff-required service
IncapableStaffRefused ==
    /\ lastResult.op = "createBooking"
    /\ lastResult.errors = <<"Selected staff member cannot perform this service">>
    /\ \E id \in DOMAIN bookings : ServiceOf(bookings[id]).requires_staff

\* the other pending and confirmed bookings on the time of booking id that leave
\* no room for it with a party of partySize: any of them for a staff-required
\* service, those whose party with partySize exceeds the capacity otherwise
OthersInTheWay(id, partySize) ==
    {other \in ActiveOnSlot(bookings[id], bookings[id], id) :
        \/ ServiceOf(bookings[id]).requires_staff
        \/ bookings[other].party_size + partySize > ServiceOf(bookings[id]).capacity}

\* C32: an update that keeps a pending or confirmed booking at its date and time
\* and sets a party size within the capacity is validated without the booking
\* itself: it succeeds when no other pending or confirmed booking is in the way,
\* and it is refused with "Time slot already booked" when one is.
UpdateExcludesOwnBooking ==
    \A id \in DOMAIN bookings :
        bookings[id].status \in ActiveStatuses =>
            \A partySize \in 1..ServiceOf(bookings[id]).capacity :
                IF OthersInTheWay(id, partySize) = {}
                THEN updateBooking(id, [party_size |-> partySize]).success
                ELSE updateBooking(id, [party_size |-> partySize]).errors
                        = <<"Time slot already booked">>

\* updateBooking accepted a party of two for a pending booking that stays at
\* its time, beside a cancelled booking on the same time
OwnTimeKept ==
    /\ lastResult.op = "updateBooking"
    /\ lastResult.success
    /\ \E id, other \in DOMAIN bookings :
          /\ bookings[id].status = "pending"
          /\ bookings[id].party_size = 2
          /\ bookings[other].status = "cancelled"
          /\ IntervalsOverlap(bookings[id], bookings[other])

\* the four fields whose change asks for a new validation
ValidatedFields == {"booking_date", "start_time", "end_time", "party_size"}

\* does the patch give one of the four fields a value the booking does not have?
ChangesTimeOrParty(row, updates) ==
    \E field \in ValidatedFields \cap DOMAIN updates : updates[field] # row[field]

\* the field of the booking once the patch is applied
Resulting(row, updates, field) ==
    IF field \in DOMAIN updates THEN updates[field] ELSE row[field]

\* what validateBookingRequest says of booking id with the patch applied
ValidationOfResult(id, updates) ==
    validateBookingRequest(bookings[id].business_id, bookings[id].service_id,
        bookings[id].staff_member_id,
        Resulting(bookings[id], updates, "booking_date"),
        Resulting(bookings[id], updates, "start_time"),
        Resulting(bookings[id], updates, "end_time"),
        Resulting(bookings[id], updates, "party_size"), id)

\* C33: when the patch changes booking_date, start_time, end_time or party_size,
\* updateBooking validates the resulting date, times and party size with the
\* booking's own business, service and staff member; when that validation
\* fails, updateBooking returns its errors and leaves every field of the
\* booking as it was, the fields of the patch that are no time included.
UpdateIsAllOrNothing ==
    \A id \in DOMAIN bookings, updates \in UpdatePatches :
        (ChangesTimeOrParty(bookings[id], updates) /\ ValidationOfResult(id, updates) # <<>>)
        => /\ ~updateBooking(id, updates).success
           /\ updateBooking(id, updates).errors = ValidationOfResult(id, updates)
           /\ updateBooking(id, updates).bookings = bookings

\* the columns that say what was booked
ProtectedFields == {"business_id", "service_id", "staff_member_id"}

\* the ledger after updateBooking(id, updates) differs from the ledger in row id
\* at most, and there only in allow-listed fields the patch defines, in
\* cancelled_at and in updated_at
OnlyPatchedFieldsChange(id, updates, after) ==
    /\ Len(after) = Len(bookings)
    /\ \A other \in DOMAIN bookings \ {id} : after[other] = bookings[other]
    /\ \A field \in DOMAIN bookings[id] :
          after[id][field] # bookings[id][field]
          => \/ field \in ALLOWED_UPDATE_FIELDS \cap DOMAIN updates
             \/ field \in {"cancelled_at", "updated_at"}
    /\ \A field \in ProtectedFields : after[id][field] = bookings[id][field]

\* C34: updateBooking changes no id, business_id, service_id or staff_member_id,
\* also when the patch holds them; it changes an allow-listed field only when
\* the patch defines it; and a patch without any allow-listed field is rejected
\* and changes nothing, updated_at included.
OnlyAllowListedFieldsChange ==
    \A id \in DOMAIN bookings, updates \in UpdatePatches :
        /\ OnlyPatchedFieldsChange(id, updates, updateBooking(id, updates).bookings)
        /\ ALLOWED_UPDATE_FIELDS \cap DOMAIN updates = {}
              => /\ ~updateBooking(id, updates).success
                 /\ updateBooking(id, updates).bookings = bookings

\* updateBooking refused a patch that holds no allow-listed field
ForeignPatchRefused ==
    /\ lastResult.op = "updateBooking"
    /\ lastResult.errors = <<"No valid fields to update">>
    /\ bookings # <<>>

\* C38: a booking whose status is cancelled has cancelled_at set; an update
\* that moves the status into cancelled from another status stamps cancelled_at
\* with the time of the update, and an update of a booking that is cancelled
\* already, status = cancelled included, leaves cancelled_at as it is.
CancelledAtTracksCancellation ==
    /\ [](\A id \in DOMAIN bookings :
              bookings[id].status = "cancelled" => bookings[id].cancelled_at # <<>>)
    /\ [][\A id \in DOMAIN bookings :
              bookings'[id].status = "cancelled"
              => IF bookings[id].status = "cancelled"
                 THEN bookings'[id].cancelled_at = bookings[id].cancelled_at
                 ELSE bookings'[id].cancelled_at = <<now>>]_vars

\* an update went through on a booking that had been cancelled a day before
CancelledBookingUpdated ==
    /\ lastResult.op = "updateBooking"
    /\ lastResult.success
    /\ \E id \in DOMAIN bookings :
          /\ bookings[id].status = "cancelled"
          /\ bookings[id].cancelled_at # <<>>
          /\ bookings[id].cancelled_at # <<bookings[id].updated_at>>

\* does isTimeSlotAvailable refuse a request of partySize for the slot because
\* of a booking?
RefusedForBooking(service, date, slot, partySize) ==
    isTimeSlotAvailable(service.business_id, service.id, slot.staff_member_id, date,
                        slot.start_time, slot.end_time, partySize, 0).reason
        = "Time slot already booked"

\* C35: in every ledger state, for every service, date, staff member and party
\* size between 1 and the capacity of the service, validateBookingRequest
\* refuses a request for [start, end) because of a conflicting booking exactly
\* when getAvailableSlots reports the slot with that start, end and staff
\* member with available = FALSE.
SameConflictRule ==
    \A service \in ActiveServices, date \in SlotDates :
        \A slot \in SlotsOf(getAvailableSlots(service.business_id, service.id, date)) :
            \A partySize \in 1..service.capacity :
                RefusedForBooking(service, date, slot, partySize) <=> ~slot.available

\* C36: converting a time string that does not match the time pattern to
\* minutes fails with a format error instead of returning a number (and
\* validateBookingRequest reports a format error for every request whose start
\* or end does not match the pattern).
MalformedTimeFails ==
    /\ lastResult.op = "timeStringToMinutes"
    /\ ~MatchesTimeFormat(lastResult.arguments[1])
    => ~lastResult.success

\* no active service of the business has the id
UnknownService(serviceId, businessId) ==
    ~\E s \in services : s.id = serviceId /\ s.business_id = businessId /\ s.is_active

\* C37: getAvailableSlots for a service id that does not exist, is inactive or
\* belongs to another business fails with 'Service not found' and returns no
\* slot list; getWeekAvailability for such a service returns seven days, each
\* with an empty slot list, and no error.
UnknownServiceOnDayAndWeek ==
    /\ /\ lastResult.op = "getAvailableSlots"
       /\ UnknownService(lastResult.query[2], lastResult.query[1])
       => /\ ~lastResult.success
          /\ lastResult.errors = <<"Service not found">>
          /\ lastResult.time_slots = <<>>
    /\ /\ lastResult.op = "getWeekAvailability"
       /\ getBusinessIdFromSlug(lastResult.query[1]) # 0
       /\ UnknownService(lastResult.query[2], getBusinessIdFromSlug(lastResult.query[1]))
       => /\ lastResult.success
          /\ Len(lastResult.days) = 7
          /\ \A i \in 1..7 : lastResult.days[i].time_slots = <<>>

\* a day query for the inactive service of the business was refused
InactiveServiceRefused ==
    /\ lastResult.op = "getAvailableSlots"
    /\ lastResult.query[2] = 3
    /\ lastResult.query[1] = 1
    /\ ~lastResult.success

\* the list getAvailableSlots returns for the service and the date when the
\* conflict query finds no booking
SlotsOfEmptyLedger(service, date) ==
    uniqueSlots(sort(afterSpecials(
        generatedSlots(service, service.business_id, service.id, getDay(date)),
        specialAvailability(service, service.business_id, service.id, date), 1)))

\* the list getAvailableSlots returns for the service and the date now
SlotsNow(service, date) ==
    getAvailableSlots(service.business_id, service.id, date).time_slots

\* the closures of the date that the call for the service reads
ClosuresOf(service, date) ==
    {k \in DOMAIN special_availability :
        /\ ~special_availability[k].is_available
        /\ \E j \in DOMAIN specialAvailability(service, service.business_id, service.id, date) :
              specialAvailability(service, service.business_id, service.id, date)[j]
                  = special_availability[k]}

\* the slot lies in closure k: the whole day, or an interval that overlaps it
HitByClosure(slot, k) ==
    \/ special_availability[k].start_time = <<>>
    \/ special_availability[k].end_time = <<>>
    \/ timeSlotsOverlap(slot.start_time, slot.end_time,
                        special_availability[k].start_time, special_availability[k].end_time)

\* the days asked about: one with a closed hour, one closed, one without closure
ClosureDates == {0, 1, 2}

\* C39: for fixed rules and overrides the (start_time, end_time, staff_member_id)
\* triples getAvailableSlots returns are the same in every ledger state, those of
\* the empty ledger; bookings only turn the available flag of a slot from TRUE to
\* FALSE and add or remove no slot, while no slot that an is_available = FALSE
\* override hits is in the list.
BookingsFlipFlagsClosuresRemove ==
    \A service \in ActiveServices, date \in ClosureDates :
        /\ Len(SlotsNow(service, date)) = Len(SlotsOfEmptyLedger(service, date))
        /\ \A i \in 1..Len(SlotsNow(service, date)) :
              /\ SlotsNow(service, date)[i].start_time
                    = SlotsOfEmptyLedger(service, date)[i].start_time
              /\ SlotsNow(service, date)[i].end_time
                    = SlotsOfEmptyLedger(service, date)[i].end_time
              /\ SlotsNow(service, date)[i].staff_member_id
                    = SlotsOfEmptyLedger(service, date)[i].staff_member_id
              /\ SlotsOfEmptyLedger(service, date)[i].available
              /\ \A k \in ClosuresOf(service, date) :
                    ~HitByClosure(SlotsNow(service, date)[i], k)

\* the last call answered for the day with the closed hour: the closure took a
\* generated slot away and a booking turned the flag of a slot that stayed
FlaggedBesideClosure ==
    /\ lastResult.op = "getAvailableSlots"
    /\ lastResult.success
    /\ lastResult.date = 1
    /\ \E i \in 1..Len(lastResult.time_slots) : ~lastResult.time_slots[i].available
    /\ \E i \in 1..Len(lastResult.time_slots) : lastResult.time_slots[i].available
    /\ \E service \in ActiveServices :
          /\ service.id = lastResult.query[2]
          /\ Len(generatedSlots(service, service.business_id, service.id, getDay(1)))
                > Len(lastResult.time_slots)

====
